---- MODULE Spec2Model ----
(***************************************************************************)
(* Model of TransactionService (ChargeX/ev-server): refund submission, CDR *)
(* push and transaction deletion, as request handlers that suspend at      *)
(* every awaited store or integration call.                                *)
(***************************************************************************)
EXTENDS Integers, Sequences, FiniteSets, TLC

\* ------------------------------------------------------------------ bounds
\* Longest id list of a batch request.
MaxBatch == 2
\* The longest result the store's in-error query returns.
MaxStoreResult == 102
\* The ceiling of handleGetTransactionsInError on the length of its result.
ResultCap == 100
\* The longest list of transactions given to convertToCSV.
MaxCsvRows == 2

\* ------------------------------------------------------------ value spaces
Tenants == {"T1", "T2"}
TxIds == {501, 502}
StationID == "S1"
UserIds == {"U1", "U2"}
\* Request slots; the sequential specifications run slot 1 only.
Procs == {1, 2}
SeqProcs == {1}

RefundStatus == [SUBMITTED |-> "submitted", CANCELLED |-> "cancelled"]
NoRefundData == [refundId |-> "", status |-> ""]
RefundDataValues ==
  { NoRefundData,
    [refundId |-> "R1", status |-> RefundStatus.SUBMITTED],
    [refundId |-> "R1", status |-> RefundStatus.CANCELLED] }
NoOcpiData == [present |-> FALSE, cdrId |-> ""]

Range(s) == { s[i] : i \in DOMAIN s }
BatchIds == UNION { [1..n -> TxIds] : n \in 0..MaxBatch }

\* A stored transaction document.
Tx(id, conn, stopped, refund, invoice, issuer, ocpi) ==
  [ id |-> id, chargeBoxID |-> StationID, connectorId |-> conn,
    stop |-> stopped, refundData |-> refund,
    billingData |-> [invoiceID |-> invoice],
    issuer |-> issuer, ocpiData |-> ocpi ]

\* --------------------------------------------------------------- variables
VARIABLES
  transactions,  \* transaction store: [tenant -> [existing ids -> document]]
  stations,      \* station store: [tenant -> [existing station ids -> station]]
  refundImpl,    \* [tenant -> BOOLEAN]: RefundFactory has an implementation
  billingImpl,   \* [tenant -> BOOLEAN]: BillingFactory has an implementation
  pc,            \* [slot -> position of the request running in it]
  req,           \* [slot -> the request: operation, req.user, filtered input]
  idx,           \* [slot -> index of the next id of the for-of loop]
  toDelete,      \* [slot -> transactionsIDsToDelete]
  result,        \* [slot -> ActionsResponse {inSuccess, inError}]
  toRefund,      \* [slot -> transactionsToRefund]
  cur,           \* [slot -> the fetched transaction, with its chargeBox]
  response,      \* [slot -> what the request answered, or the error thrown]
  log,           \* [slot -> Logging.logError entries of the request]
  calls,         \* [slot -> collaborator calls made by the request, in order]
  cdrSent,       \* [tenant -> [id -> CDRs the roaming collaborator sent for it]]
  begin          \* [slot -> the stores when the request started]

vars == << transactions, stations, refundImpl, billingImpl, pc, req, idx,
           toDelete, result, toRefund, cur, response, log, calls, cdrSent,
           begin >>

NoRequest == [op |-> "none"]
NoTransaction == [id |-> 0]
NoResponse == [kind |-> "none"]
Success(body) == [kind |-> "success", keys |-> DOMAIN body, body |-> body]
Failure(error) == [kind |-> error]

\* ---------------------------------------------------------- collaborators
\* TransactionStorage.getTransaction: null when the id is not stored.
HasTransaction(tenantID, id) == id \in DOMAIN transactions[tenantID]

\* The chargeBox values getTransaction may attach to a transaction: none, or
\* the stored station it names.
ChargeBoxes(tenantID, tx) ==
  { << >> } \cup
  ( IF tx.chargeBoxID \in DOMAIN stations[tenantID]
      THEN { << stations[tenantID][tx.chargeBoxID] >> } ELSE {} )

\* Utils.getConnectorFromID: undefined when the station has no such connector.
HasConnector(chargeBox, connectorId) == connectorId \in DOMAIN chargeBox.connectors

\* OCPPUtils.checkAndFreeChargingStationConnector: clears the binding.
FreeConnector(chargeBox, connectorId) ==
  IF HasConnector(chargeBox, connectorId)
    THEN [chargeBox EXCEPT !.connectors[connectorId].currentTransactionID = 0]
    ELSE chargeBox

\* RefundConnector.canBeDeleted.
CanBeDeleted(tx) ==
  ~(tx.refundData.refundId # "" /\ tx.refundData.status # RefundStatus.CANCELLED)

\* TransactionStorage.deleteTransactions: removes the stored rows whose id is
\* in ids and answers how many rows it removed.
RemovedRows(tenantID, ids) == Range(ids) \cap DOMAIN transactions[tenantID]
StoreAfterDelete(tenantID, ids) ==
  [ id \in (DOMAIN transactions[tenantID]) \ Range(ids) |-> transactions[tenantID][id] ]

\* ------------------------------------------------------------ frame helpers
Station(c1, c2) ==
  [ id |-> StationID,
    connectors |-> (1 :> [currentTransactionID |-> c1] @@
                    2 :> [currentTransactionID |-> c2]) ]

Attach(tx, chargeBox) == tx @@ [chargeBox |-> chargeBox]
Called(r, call) == [calls EXCEPT ![r] = Append(@, call)]
Logged(r, id, message) == [log EXCEPT ![r] = Append(@, [id |-> id, message |-> message])]

\* What a request starts from: empty locals, the stores it finds.
Fresh(r, request) ==
  /\ req' = [req EXCEPT ![r] = request]
  /\ idx' = [idx EXCEPT ![r] = 1]
  /\ toDelete' = [toDelete EXCEPT ![r] = << >>]
  /\ result' = [result EXCEPT ![r] = [inSuccess |-> 0, inError |-> 0]]
  /\ toRefund' = [toRefund EXCEPT ![r] = << >>]
  /\ cur' = [cur EXCEPT ![r] = NoTransaction]
  /\ log' = [log EXCEPT ![r] = << >>]
  /\ calls' = [calls EXCEPT ![r] = << >>]
  /\ begin' = [begin EXCEPT ![r] = [transactions |-> transactions, stations |-> stations]]

Throw(r, error) ==
  /\ pc' = [pc EXCEPT ![r] = "done"]
  /\ response' = [response EXCEPT ![r] = Failure(error)]

\* ----------------------------------------------------------------- delete
\* The refund check with its negation lost.
RefundBlocksDelete_Inverted(tenantID, transaction) ==
  refundImpl[tenantID] /\ CanBeDeleted(transaction)

\* The refund check made whether or not the tenant has the integration.
RefundBlocksDelete_IgnoresPresence(tenantID, transaction) == ~CanBeDeleted(transaction)

\* deleteTransactions, line 773: the refund check of one fetched transaction.
RefundBlocksDelete(tenantID, transaction) ==
  refundImpl[tenantID] /\ ~CanBeDeleted(transaction)

\* The billing check looking at the presence of billingData only.
BillingBlocksDelete_NoInvoiceTest(tenantID, transaction) ==
  billingImpl[tenantID] /\ transaction.billingData.invoiceID = ""

\* The invoice check applied to completed sessions only.
BillingBlocksDelete_OnlyStopped(tenantID, transaction) ==
  billingImpl[tenantID] /\ transaction.billingData.invoiceID # "" /\ transaction.stop

\* deleteTransactions, line 784: the billing check of one fetched transaction.
BillingBlocksDelete(tenantID, transaction) ==
  billingImpl[tenantID] /\ transaction.billingData.invoiceID # ""

\* The connector check comparing against the connector id instead of the
\* transaction id.
MustFreeConnector_WrongId(transaction) ==
  /\ ~transaction.stop
  /\ transaction.chargeBox # << >>
  /\ HasConnector(transaction.chargeBox[1], transaction.connectorId)
  /\ transaction.connectorId =
       transaction.chargeBox[1].connectors[transaction.connectorId].currentTransactionID

\* The connector never found bound.
MustFreeConnector_Never(transaction) == FALSE

\* The connector released whatever transaction it is bound to.
MustFreeConnector_AnyOccupant(transaction) ==
  /\ ~transaction.stop
  /\ transaction.chargeBox # << >>
  /\ HasConnector(transaction.chargeBox[1], transaction.connectorId)

\* deleteTransactions, lines 795-801: the transaction is in progress, carries
\* its chargeBox, and the connector it names is bound to it.
MustFreeConnector(transaction) ==
  /\ ~transaction.stop
  /\ transaction.chargeBox # << >>
  /\ HasConnector(transaction.chargeBox[1], transaction.connectorId)
  /\ transaction.id =
       transaction.chargeBox[1].connectors[transaction.connectorId].currentTransactionID

\* The list walked from its end.
LoopTransactionID_Backwards(r) == req[r].ids[Len(req[r].ids) + 1 - idx[r]]

\* deleteTransactions, line 758: for (const transactionID of transactionsIDs).
LoopTransactionID(r) == req[r].ids[idx[r]]

\* The loop leaving one id early.
AfterDeleteItem_SkipsLast(r) ==
  IF idx[r] + 1 >= Len(req[r].ids) THEN "delete_bulk" ELSE "delete_loop"

\* The loop leaving after its first id.
AfterDeleteItem_Break(r) == "delete_bulk"

\* Where the for-of loop of deleteTransactions goes after the id at idx[r].
AfterDeleteItem(r) ==
  IF idx[r] >= Len(req[r].ids) THEN "delete_bulk" ELSE "delete_loop"

\* Every request served from the stores of one tenant.
TenantOf_Fixed(r) == "T1"

\* loggedUser.tenantID (req.user.tenantID), the tenant every storage call of
\* the delete handlers is given.
TenantOf(r) == req[r].tenantID

\* The authorization check left out.
CannotDelete_Unchecked(request) == FALSE

\* Lines 355 and 378: !Authorizations.canDeleteTransaction(req.user).
CannotDelete(request) == ~request.canDeleteTransaction

\* handleDeleteTransactions, by a user of tenantID, up to the first await of
\* deleteTransactions.
DeleteStart(r, tenantID) ==
  /\ pc[r] \in {"idle", "done"}
  /\ \E canDelete \in BOOLEAN, ids \in BatchIds :
       LET request == [ op |-> "deleteTransactions", tenantID |-> tenantID,
                        canDeleteTransaction |-> canDelete, ids |-> ids ]
       IN /\ Fresh(r, request)
          /\ IF CannotDelete(request)
               THEN Throw(r, "AppAuthError")
               ELSE /\ pc' = [pc EXCEPT ![r] = IF ids = << >> THEN "delete_bulk"
                                                               ELSE "delete_loop"]
                    /\ response' = [response EXCEPT ![r] = NoResponse]
  /\ UNCHANGED << transactions, stations, refundImpl, billingImpl, cdrSent >>

\* handleDeleteTransaction, by a user of tenantID, up to its first await.
DeleteOneStart(r, tenantID) ==
  /\ pc[r] \in {"idle", "done"}
  /\ \E canDelete \in BOOLEAN, transactionId \in TxIds :
       LET request == [ op |-> "deleteTransaction", tenantID |-> tenantID,
                        canDeleteTransaction |-> canDelete,
                        transactionId |-> transactionId, ids |-> << transactionId >> ]
       IN /\ Fresh(r, request)
          /\ IF CannotDelete(request)
               THEN Throw(r, "AppAuthError")
               ELSE /\ pc' = [pc EXCEPT ![r] = "deleteone_get"]
                    /\ response' = [response EXCEPT ![r] = NoResponse]
  /\ UNCHANGED << transactions, stations, refundImpl, billingImpl, cdrSent >>

\* getTransaction and assertObjectExists of handleDeleteTransaction, then the
\* call of deleteTransactions with the one id.
DeleteOneGet(r) ==
  /\ pc[r] = "deleteone_get"
  /\ LET tenantID == TenantOf(r)
         transactionId == req[r].transactionId
     IN IF ~HasTransaction(tenantID, transactionId)
          THEN /\ calls' = Called(r, [op |-> "getTransaction", id |-> transactionId,
                                      transaction |-> NoTransaction])
               /\ Throw(r, "AppError: Transaction does not exist")
          ELSE \E chargeBox \in ChargeBoxes(tenantID, transactions[tenantID][transactionId]) :
               /\ calls' = Called(r, [op |-> "getTransaction", id |-> transactionId,
                                      transaction |->
                                        Attach(transactions[tenantID][transactionId],
                                               chargeBox)])
               /\ pc' = [pc EXCEPT ![r] = "delete_loop"]
               /\ UNCHANGED response
  /\ UNCHANGED << transactions, stations, refundImpl, billingImpl, cdrSent, req, idx,
                  toDelete, result, toRefund, cur, log, begin >>

\* One turn of the loop: getTransaction and the checks that follow it, up to
\* the next await.
DeleteExamine(r) ==
  /\ pc[r] = "delete_loop"
  /\ LET tenantID == TenantOf(r)
         transactionID == LoopTransactionID(r)
     IN
     IF ~HasTransaction(tenantID, transactionID)
       THEN /\ result' = [result EXCEPT ![r].inError = @ + 1]
            /\ log' = Logged(r, transactionID, "does not exist")
            /\ calls' = Called(r, [op |-> "getTransaction", id |-> transactionID,
                                   transaction |-> NoTransaction])
            /\ idx' = [idx EXCEPT ![r] = @ + 1]
            /\ pc' = [pc EXCEPT ![r] = AfterDeleteItem(r)]
            /\ UNCHANGED << toDelete, cur >>
       ELSE \E chargeBox \in ChargeBoxes(tenantID, transactions[tenantID][transactionID]) :
            LET transaction == Attach(transactions[tenantID][transactionID], chargeBox)
            IN
            /\ calls' = Called(r, [op |-> "getTransaction", id |-> transactionID,
                                   transaction |-> transaction])
            /\ IF RefundBlocksDelete(tenantID, transaction)
                 THEN /\ result' = [result EXCEPT ![r].inError = @ + 1]
                      /\ log' = Logged(r, transactionID, "has been refunded and cannot be deleted")
                      /\ idx' = [idx EXCEPT ![r] = @ + 1]
                      /\ pc' = [pc EXCEPT ![r] = AfterDeleteItem(r)]
                      /\ UNCHANGED << toDelete, cur >>
               ELSE IF BillingBlocksDelete(tenantID, transaction)
                 THEN /\ result' = [result EXCEPT ![r].inError = @ + 1]
                      /\ log' = Logged(r, transactionID, "has been billed and cannot be deleted")
                      /\ idx' = [idx EXCEPT ![r] = @ + 1]
                      /\ pc' = [pc EXCEPT ![r] = AfterDeleteItem(r)]
                      /\ UNCHANGED << toDelete, cur >>
               ELSE IF MustFreeConnector(transaction)
                 THEN /\ cur' = [cur EXCEPT ![r] =
                                   [transaction EXCEPT !.chargeBox =
                                      << FreeConnector(transaction.chargeBox[1],
                                                       transaction.connectorId) >>]]
                      /\ pc' = [pc EXCEPT ![r] = "delete_save"]
                      /\ UNCHANGED << result, log, idx, toDelete >>
               ELSE /\ toDelete' = [toDelete EXCEPT ![r] = Append(@, transactionID)]
                    /\ idx' = [idx EXCEPT ![r] = @ + 1]
                    /\ pc' = [pc EXCEPT ![r] = AfterDeleteItem(r)]
                    /\ UNCHANGED << result, log, cur >>
  /\ UNCHANGED << transactions, stations, refundImpl, billingImpl, cdrSent, req, toRefund,
                  response, begin >>

\* saveChargingStation of the freed chargeBox, then the push of the id.
DeleteSaveStation(r) ==
  /\ pc[r] = "delete_save"
  /\ LET tenantID == TenantOf(r)
         chargeBox == cur[r].chargeBox[1]
     IN /\ stations' = [stations EXCEPT ![tenantID] =
                          (chargeBox.id :> chargeBox) @@ stations[tenantID]]
        /\ calls' = Called(r, [op |-> "saveChargingStation", chargeBox |-> chargeBox])
  /\ toDelete' = [toDelete EXCEPT ![r] = Append(@, LoopTransactionID(r))]
  /\ idx' = [idx EXCEPT ![r] = @ + 1]
  /\ pc' = [pc EXCEPT ![r] = AfterDeleteItem(r)]
  /\ cur' = [cur EXCEPT ![r] = NoTransaction]
  /\ UNCHANGED << transactions, refundImpl, billingImpl, cdrSent, req, result, toRefund,
                  response, log, begin >>

\* The row count taken from the list handed over, not from the store.
DeletedCount_ListLength(tenantID, ids) == Len(ids)

\* deleteTransactions, line 815: inSuccess is the count the store returns.
DeletedCount(tenantID, ids) == Cardinality(RemovedRows(tenantID, ids))

\* An answer that turns into an error when an id was counted in error.
DeleteAnswer_ErrorOnFailure(answer) ==
  IF answer.inError > 0 THEN Failure("AppError") ELSE Success(answer @@ [status |-> "Success"])

\* Lines 370 and 388: res.json({ ...result, ...Constants.REST_RESPONSE_SUCCESS }).
DeleteAnswer(answer) == Success(answer @@ [status |-> "Success"])

\* The bulk delete after the loop, and the answer of the request.
DeleteBulk(r) ==
  /\ pc[r] = "delete_bulk"
  /\ LET tenantID == TenantOf(r)
         inSuccess == DeletedCount(tenantID, toDelete[r])
         answer == [result[r] EXCEPT !.inSuccess = inSuccess]
     IN /\ transactions' = [transactions EXCEPT ![tenantID] =
                              StoreAfterDelete(tenantID, toDelete[r])]
        /\ calls' = Called(r, [op |-> "deleteTransactions", ids |-> toDelete[r]])
        /\ result' = [result EXCEPT ![r] = answer]
        /\ response' = [response EXCEPT ![r] = DeleteAnswer(answer)]
  /\ pc' = [pc EXCEPT ![r] = "done"]
  /\ UNCHANGED << stations, refundImpl, billingImpl, cdrSent, req, idx, toDelete, toRefund,
                  cur, log, begin >>

\* ----------------------------------------------------------------- refund
\* UserStorage.getUser: each tenant stores the users U1, issued by the
\* organization, and U3, issued elsewhere; U2 holds a token but has no stored
\* user.
StoredUsers == [tenantID \in Tenants |-> {"U1", "U3"}]
HasUser(tenantID, userID) == userID \in StoredUsers[tenantID]
UserDoc(tenantID, userID) == [id |-> userID, issuer |-> userID # "U3"]

\* RefundConnector.refund: the store after the integration accepted the
\* transactions of the given ids.
StoreAfterRefund(tenantID, acceptedIds) ==
  [ id \in DOMAIN transactions[tenantID] |->
      IF id \in acceptedIds
        THEN [transactions[tenantID][id] EXCEPT
                !.refundData = [refundId |-> "R1", status |-> RefundStatus.SUBMITTED]]
        ELSE transactions[tenantID][id] ]

\* The subsequence of s at the positions of keep.
Pick(s, keep) ==
  LET F[i \in 0..Len(s)] ==
        IF i = 0 THEN << >>
        ELSE IF i \in keep THEN Append(F[i - 1], s[i]) ELSE F[i - 1]
  IN F[Len(s)]

\* The already-refunded check without its status test.
AlreadyRefunded_AnyStatus(transaction) ==
  transaction.refundData.refundId # ""

\* handleRefundTransactions, line 117.
AlreadyRefunded(transaction) ==
  /\ transaction.refundData.refundId # ""
  /\ transaction.refundData.status # RefundStatus.CANCELLED

\* The capability check taken as passed.
RefundDenied_Never(r, transaction) == FALSE

\* handleRefundTransactions, line 129: the capability check fails.
RefundDenied(r, transaction) ==
  transaction.id \notin req[r].canRefundTransaction

\* The factory's answer never tested.
NoRefundImplementation_Unchecked(tenantID) == FALSE

\* handleRefundTransactions, line 147.
NoRefundImplementation(tenantID) == ~refundImpl[tenantID]

\* The answer carrying inError also for a shortfall of zero.
RefundAnswer_AlwaysInError(submitted, refunded) ==
  [ inSuccess |-> Len(refunded), status |-> "Success",
    inError |-> Len(submitted) - Len(refunded) ]

\* handleRefundTransactions, lines 159-167: the answer of the request.
RefundAnswer(submitted, refunded) ==
  LET notRefundedTransactions == Len(submitted) - Len(refunded)
      answer == [inSuccess |-> Len(refunded), status |-> "Success"]
  IN IF notRefundedTransactions > 0
       THEN answer @@ [inError |-> notRefundedTransactions]
       ELSE answer

AfterRefundItem(r) ==
  IF idx[r] >= Len(req[r].ids) THEN "refund_submit" ELSE "refund_loop"

\* handleRefundTransactions, by the user userID of tenantID, up to the first
\* await of its loop.
RefundStart(r, tenantID) ==
  /\ pc[r] \in {"idle", "done"}
  /\ \E userID \in UserIds, hasIds \in BOOLEAN, canRefund \in SUBSET TxIds :
     \E ids \in IF hasIds THEN BatchIds ELSE { << >> } :
       LET request == [ op |-> "refundTransactions", tenantID |-> tenantID,
                        userID |-> userID, hasTransactionIds |-> hasIds,
                        ids |-> ids,
                        canRefundTransaction |-> canRefund ]
       IN /\ Fresh(r, request)
          /\ IF ~hasIds
               THEN Throw(r, "AppError: Transaction IDs must be provided")
               ELSE /\ pc' = [pc EXCEPT ![r] = IF ids = << >> THEN "refund_submit"
                                                               ELSE "refund_loop"]
                    /\ response' = [response EXCEPT ![r] = NoResponse]
  /\ UNCHANGED << transactions, stations, refundImpl, billingImpl, cdrSent >>

\* One turn of the loop: getTransaction and the checks that follow it.
RefundExamine(r) ==
  /\ pc[r] = "refund_loop"
  /\ LET tenantID == req[r].tenantID
         transactionId == req[r].ids[idx[r]]
     IN
     IF ~HasTransaction(tenantID, transactionId)
       THEN \* line 109 reads transaction.user of the null transaction
            /\ calls' = Called(r, [op |-> "getTransaction", id |-> transactionId,
                                   transaction |-> NoTransaction])
            /\ Throw(r, "TypeError")
            /\ UNCHANGED << idx, toRefund, log >>
       ELSE LET transaction == transactions[tenantID][transactionId]
                fetched == [op |-> "getTransaction", id |-> transactionId,
                            transaction |-> transaction]
            IN
            IF AlreadyRefunded(transaction)
              THEN /\ log' = Logged(r, transactionId, "is already refunded")
                   /\ calls' = Called(r, fetched)
                   /\ idx' = [idx EXCEPT ![r] = @ + 1]
                   /\ pc' = [pc EXCEPT ![r] = AfterRefundItem(r)]
                   /\ UNCHANGED << toRefund, response >>
            ELSE IF RefundDenied(r, transaction)
              THEN /\ calls' = [calls EXCEPT ![r] =
                                  @ \o << fetched,
                                          [op |-> "canRefundTransaction",
                                           id |-> transactionId, allowed |-> FALSE] >>]
                   /\ Throw(r, "AppAuthError")
                   /\ UNCHANGED << idx, toRefund, log >>
            ELSE /\ calls' = [calls EXCEPT ![r] =
                                @ \o << fetched,
                                        [op |-> "canRefundTransaction",
                                         id |-> transactionId, allowed |-> TRUE] >>]
                 /\ toRefund' = [toRefund EXCEPT ![r] = Append(@, transaction)]
                 /\ idx' = [idx EXCEPT ![r] = @ + 1]
                 /\ pc' = [pc EXCEPT ![r] = AfterRefundItem(r)]
                 /\ UNCHANGED << log, response >>
  /\ UNCHANGED << transactions, stations, refundImpl, billingImpl, cdrSent, req, toDelete,
                  result, cur, begin >>

\* After the loop: the acting user, the refund implementation, the refund of
\* the collected transactions and the answer.
RefundSubmit(r) ==
  /\ pc[r] = "refund_submit"
  /\ LET tenantID == req[r].tenantID
     IN
     IF ~HasUser(tenantID, req[r].userID)
       THEN /\ Throw(r, "AppError: User does not exist")
            /\ UNCHANGED << transactions, calls >>
     ELSE IF NoRefundImplementation(tenantID)
       THEN /\ Throw(r, "AppError: No Refund Implementation Found")
            /\ UNCHANGED << transactions, calls >>
     ELSE \E accepted \in SUBSET DOMAIN toRefund[r] :
            LET refundedTransactions == Pick(toRefund[r], accepted)
            IN /\ transactions' = [transactions EXCEPT ![tenantID] =
                    StoreAfterRefund(tenantID, { toRefund[r][i].id : i \in accepted })]
               /\ calls' = Called(r, [op |-> "refund", userID |-> req[r].userID,
                                      transactions |-> toRefund[r],
                                      refunded |-> refundedTransactions])
               /\ response' = [response EXCEPT ![r] =
                                 Success(RefundAnswer(toRefund[r], refundedTransactions))]
               /\ pc' = [pc EXCEPT ![r] = "done"]
  /\ UNCHANGED << stations, refundImpl, billingImpl, cdrSent, req, idx, toDelete, result,
                  toRefund, cur, log, begin >>

\* --------------------------------------------------------------- CDR push
\* OCPPUtils.processOCPITransaction with TransactionAction.END: the CDR is
\* sent and its id is set on the transaction it was given.
WithCdr(transaction) == [transaction EXCEPT !.ocpiData.cdrId = "CDR1"]

\* TransactionStorage.saveTransaction: the document replaces the stored one.
StoreAfterSave(tenantID, transaction) ==
  (transaction.id :> transaction) @@ transactions[tenantID]

\* The already-pushed guard left out.
CdrAlreadyPushed_Unchecked(transaction) == FALSE

\* handlePushTransactionCdr, line 218: transaction.ocpiData.cdr?.id is set.
CdrAlreadyPushed(transaction) == transaction.ocpiData.cdrId # ""

\* The issuer check left out.
FromExternalOrganization_Unchecked(transaction) == FALSE

\* handlePushTransactionCdr, line 196: !transaction.issuer.
FromExternalOrganization(transaction) == ~transaction.issuer

\* handlePushTransactionCdr up to its first await: the id must be provided
\* (0 stands for a request without id) and the caller may update transactions.
CdrStart(r, tenantID) ==
  /\ pc[r] \in {"idle", "done"}
  /\ \E canUpdate \in BOOLEAN, transactionId \in TxIds \cup {0} :
       LET request == [ op |-> "pushTransactionCdr", tenantID |-> tenantID,
                        canUpdateTransaction |-> canUpdate,
                        transactionId |-> transactionId ]
       IN /\ Fresh(r, request)
          /\ IF transactionId = 0
               THEN Throw(r, "AppError: The ID must be provided")
             ELSE IF ~canUpdate
               THEN Throw(r, "AppAuthError")
             ELSE /\ pc' = [pc EXCEPT ![r] = "cdr_transaction"]
                  /\ response' = [response EXCEPT ![r] = NoResponse]
  /\ UNCHANGED << transactions, stations, refundImpl, billingImpl, cdrSent >>

\* getTransaction and assertObjectExists.
CdrGetTransaction(r) ==
  /\ pc[r] = "cdr_transaction"
  /\ LET tenantID == req[r].tenantID
         transactionId == req[r].transactionId
     IN IF ~HasTransaction(tenantID, transactionId)
          THEN /\ calls' = Called(r, [op |-> "getTransaction", id |-> transactionId,
                                      transaction |-> NoTransaction])
               /\ Throw(r, "AppError: Transaction does not exist")
               /\ UNCHANGED cur
          ELSE /\ calls' = Called(r, [op |-> "getTransaction", id |-> transactionId,
                                      transaction |-> transactions[tenantID][transactionId]])
               /\ cur' = [cur EXCEPT ![r] = transactions[tenantID][transactionId]]
               /\ pc' = [pc EXCEPT ![r] = "cdr_station"]
               /\ UNCHANGED response
  /\ UNCHANGED << transactions, stations, refundImpl, billingImpl, cdrSent, req, idx,
                  toDelete, result, toRefund, log, begin >>

\* getChargingStation and the checks that follow it, up to the next await.
CdrGetStation(r) ==
  /\ pc[r] = "cdr_station"
  /\ LET tenantID == req[r].tenantID
         transaction == cur[r]
     IN /\ calls' = Called(r, [op |-> "getChargingStation", id |-> transaction.chargeBoxID])
        /\ IF transaction.chargeBoxID \notin DOMAIN stations[tenantID]
             THEN Throw(r, "AppError: Charging Station does not exist")
           ELSE IF FromExternalOrganization(transaction)
             THEN Throw(r, "AppError: TRANSACTION_NOT_FROM_TENANT")
           ELSE IF ~transaction.ocpiData.present
             THEN Throw(r, "AppError: TRANSACTION_WITH_NO_OCPI_DATA")
           ELSE IF CdrAlreadyPushed(transaction)
             THEN Throw(r, "AppError: TRANSACTION_CDR_ALREADY_PUSHED")
           ELSE /\ pc' = [pc EXCEPT ![r] = "cdr_post"]
                /\ UNCHANGED response
  /\ UNCHANGED << transactions, stations, refundImpl, billingImpl, cdrSent, req, idx,
                  toDelete, result, toRefund, cur, log, begin >>

\* processOCPITransaction: the roaming collaborator sends the CDR.
CdrPost(r) ==
  /\ pc[r] = "cdr_post"
  /\ cdrSent' = [cdrSent EXCEPT ![req[r].tenantID][cur[r].id] = @ + 1]
  /\ calls' = Called(r, [op |-> "processOCPITransaction", id |-> cur[r].id])
  /\ cur' = [cur EXCEPT ![r] = WithCdr(@)]
  /\ pc' = [pc EXCEPT ![r] = "cdr_save"]
  /\ UNCHANGED << transactions, stations, refundImpl, billingImpl, req, idx, toDelete,
                  result, toRefund, response, log, begin >>

\* saveTransaction and the answer.
CdrSave(r) ==
  /\ pc[r] = "cdr_save"
  /\ transactions' = [transactions EXCEPT ![req[r].tenantID] =
                        StoreAfterSave(req[r].tenantID, cur[r])]
  /\ calls' = Called(r, [op |-> "saveTransaction", transaction |-> cur[r]])
  /\ response' = [response EXCEPT ![r] = Success([status |-> "Success"])]
  /\ pc' = [pc EXCEPT ![r] = "done"]
  /\ UNCHANGED << stations, refundImpl, billingImpl, cdrSent, req, idx, toDelete,
                  result, toRefund, cur, log, begin >>

\* ----------------------------------------------------------------- assign
\* TransactionStorage.assignTransactionsToUser: the store after the
\* transactions of the matched ids, unassigned so far, were given to the user.
StoreAfterAssign(tenantID, user, matched) ==
  [ id \in DOMAIN transactions[tenantID] |->
      IF id \in matched
        THEN [transactions[tenantID][id] EXCEPT !.userID = user.id]
        ELSE transactions[tenantID][id] ]
Unassigned(tenantID) ==
  { id \in DOMAIN transactions[tenantID] : transactions[tenantID][id].userID = "" }

\* The issuer check left out.
UserNotIssued_Unchecked(user) == FALSE

\* handleAssignTransactionsToUser, line 335: !user.issuer.
UserNotIssued(user) == ~user.issuer

\* handleAssignTransactionsToUser up to its first await; UserID "" stands for
\* a request without UserID.
AssignStart(r, tenantID) ==
  /\ pc[r] \in {"idle", "done"}
  /\ \E canUpdate \in BOOLEAN, UserID \in {"", "U1", "U2", "U3"} :
       LET request == [ op |-> "assignTransactionsToUser", tenantID |-> tenantID,
                        canUpdateTransaction |-> canUpdate, UserID |-> UserID ]
       IN /\ Fresh(r, request)
          /\ IF ~canUpdate
               THEN Throw(r, "AppAuthError")
               ELSE IF UserID = ""
                 THEN Throw(r, "AppError: User ID must be provided")
                 ELSE /\ pc' = [pc EXCEPT ![r] = "assign_get"]
                      /\ response' = [response EXCEPT ![r] = NoResponse]
  /\ UNCHANGED << transactions, stations, refundImpl, billingImpl, cdrSent >>

\* getUser, assertObjectExists and the issuer check.
AssignGetUser(r) ==
  /\ pc[r] = "assign_get"
  /\ LET tenantID == req[r].tenantID
         UserID == req[r].UserID
     IN IF ~HasUser(tenantID, UserID)
          THEN /\ calls' = Called(r, [op |-> "getUser", id |-> UserID, found |-> FALSE])
               /\ Throw(r, "AppError: User does not exist")
          ELSE /\ calls' = Called(r, [op |-> "getUser", id |-> UserID, found |-> TRUE])
               /\ IF UserNotIssued(UserDoc(tenantID, UserID))
                    THEN Throw(r, "AppError: User not issued by the organization")
                    ELSE /\ pc' = [pc EXCEPT ![r] = "assign_store"]
                         /\ UNCHANGED response
  /\ UNCHANGED << transactions, stations, refundImpl, billingImpl, cdrSent, req, idx,
                  toDelete, result, toRefund, cur, log, begin >>

\* assignTransactionsToUser and the answer.
AssignStore(r) ==
  /\ pc[r] = "assign_store"
  /\ LET tenantID == req[r].tenantID
         user == UserDoc(tenantID, req[r].UserID)
     IN \E matched \in SUBSET Unassigned(tenantID) :
          /\ transactions' = [transactions EXCEPT ![tenantID] =
                                StoreAfterAssign(tenantID, user, matched)]
          /\ calls' = Called(r, [op |-> "assignTransactionsToUser", user |-> user])
  /\ response' = [response EXCEPT ![r] = Success([status |-> "Success"])]
  /\ pc' = [pc EXCEPT ![r] = "done"]
  /\ UNCHANGED << stations, refundImpl, billingImpl, cdrSent, req, idx, toDelete,
                  result, toRefund, cur, log, begin >>

\* --------------------------------------------------------- in-error query
\* TransactionStorage.getTransactionsInError: a result of n entries in store
\* order, the ids counting up from first.
StoreResult(first, n) ==
  [ i \in 1..n |-> [id |-> first + i - 1, errorCode |-> "no_consumption", user |-> "U1"] ]

\* TransactionSecurity.filterTransactionsResponse: the entries as the caller
\* may see them, the user blanked for a caller that is no admin.
FilterTransactionsResponse(entries, isAdmin) ==
  [ i \in DOMAIN entries |-> IF isAdmin THEN entries[i] ELSE [entries[i] EXCEPT !.user = ""] ]

\* The ceiling keeping the tail of the entries.
CapResult_KeepsTail(entries) ==
  IF Len(entries) > ResultCap
    THEN SubSeq(entries, Len(entries) - ResultCap + 1, Len(entries))
    ELSE entries

\* handleGetTransactionsInError, lines 714-716: transactions.result.length = 100.
CapResult(entries) ==
  IF Len(entries) > ResultCap THEN SubSeq(entries, 1, ResultCap) ELSE entries

\* handleGetTransactionsInError up to its await.
InErrorStart(r, tenantID) ==
  /\ pc[r] \in {"idle", "done"}
  /\ \E canList \in BOOLEAN, isAdmin \in BOOLEAN, Limit \in {50, 100, 200} :
       LET request == [ op |-> "getTransactionsInError", tenantID |-> tenantID,
                        canListTransactionsInError |-> canList, isAdmin |-> isAdmin,
                        Limit |-> Limit ]
       IN /\ Fresh(r, request)
          /\ IF ~canList
               THEN Throw(r, "AppAuthError")
               ELSE /\ pc' = [pc EXCEPT ![r] = "inerror_query"]
                    /\ response' = [response EXCEPT ![r] = NoResponse]
  /\ UNCHANGED << transactions, stations, refundImpl, billingImpl, cdrSent >>

\* The store's answer, the response filter, the ceiling and res.json.
InErrorAnswer(r) ==
  /\ pc[r] = "inerror_query"
  /\ \E n \in 0..MaxStoreResult, first \in {1, 501} :
       LET stored == StoreResult(first, n)
           shaped == FilterTransactionsResponse(stored, req[r].isAdmin)
       IN /\ calls' = Called(r, [op |-> "getTransactionsInError", limit |-> req[r].Limit,
                                  result |-> stored])
          /\ response' = [response EXCEPT ![r] =
                            Success([count |-> n, result |-> CapResult(shaped)])]
  /\ pc' = [pc EXCEPT ![r] = "done"]
  /\ UNCHANGED << transactions, stations, refundImpl, billingImpl, cdrSent, req, idx,
                  toDelete, result, toRefund, cur, log, begin >>

\* -------------------------------------------------------------- CSV export
\* A cell of the CSV text, by what was printed into it: nothing, a number, a
\* text, the hash of a user id, the date or the time of day of a timestamp.
Cell(kind, n, s) == [kind |-> kind, n |-> n, s |-> s]
EmptyCell == Cell("empty", 0, "")
NumberCell(n) == Cell("number", n, "")
TextCell(s) == Cell("text", 0, s)

\* Math.round(x / d) of a non-negative integer x.
RoundedQuotient(x, d) == (2 * x + d) \div (2 * d)

\* The header line of convertToCSV.
CsvHeader ==
  << TextCell("ID"), TextCell("Charging Station"), TextCell("Connector"),
     TextCell("User ID"), TextCell("User"), TextCell("Start Date"),
     TextCell("Start Time"), TextCell("End Date"), TextCell("End Time"),
     TextCell("Total Consumption (kW.h)"), TextCell("Total Duration (Mins)"),
     TextCell("Total Inactivity (Mins)"), TextCell("Price"), TextCell("Price Unit") >>

\* The price unit printed without looking for the stop.
PriceUnitCell_Unguarded(transaction) ==
  IF transaction.stop # << >> THEN TextCell(transaction.stop[1].priceUnit)
                              ELSE TextCell("undefined")

\* convertToCSV, line 744: transaction.stop ? transaction.stop.priceUnit : ''.
PriceUnitCell(transaction) ==
  IF transaction.stop # << >> THEN TextCell(transaction.stop[1].priceUnit) ELSE EmptyCell

\* convertToCSV, lines 731-744: the line of one transaction. The price is kept
\* in thousandths and printed in hundredths; a stop without price prints NaN.
CsvRow(transaction) ==
  LET user == transaction.user
      stop == transaction.stop
  IN << NumberCell(transaction.id),
        TextCell(transaction.chargeBoxID),
        NumberCell(transaction.connectorId),
        IF user # << >> THEN Cell("hash", 0, user[1].id) ELSE EmptyCell,
        IF user # << >> THEN TextCell(user[1].name) ELSE EmptyCell,
        Cell("date", transaction.timestamp, ""),
        Cell("time", transaction.timestamp, ""),
        IF stop # << >> THEN Cell("date", stop[1].timestamp, "") ELSE EmptyCell,
        IF stop # << >> THEN Cell("time", stop[1].timestamp, "") ELSE EmptyCell,
        IF stop # << >>
          THEN NumberCell(IF stop[1].totalConsumptionWh # 0
                            THEN RoundedQuotient(stop[1].totalConsumptionWh, 1000) ELSE 0)
          ELSE EmptyCell,
        IF stop # << >>
          THEN NumberCell(IF stop[1].totalDurationSecs # 0
                            THEN RoundedQuotient(stop[1].totalDurationSecs, 60) ELSE 0)
          ELSE EmptyCell,
        IF stop # << >>
          THEN NumberCell(IF stop[1].totalInactivitySecs # 0
                            THEN RoundedQuotient(stop[1].totalInactivitySecs, 60) ELSE 0)
          ELSE EmptyCell,
        IF stop # << >>
          THEN (IF stop[1].price # << >>
                  THEN Cell("hundredths", RoundedQuotient(stop[1].price[1], 10), "")
                  ELSE TextCell("NaN"))
          ELSE EmptyCell,
        PriceUnitCell(transaction) >>

\* convertToCSV: the lines of the text, the header first when asked for.
ConvertToCSV(txs, writeHeader) ==
  (IF writeHeader THEN << CsvHeader >> ELSE << >>) \o [i \in DOMAIN txs |-> CsvRow(txs[i])]

\* The transactions given to the export.
CsvStops ==
  { << >>,
    << [timestamp |-> 20, totalConsumptionWh |-> 1499, totalDurationSecs |-> 90,
        totalInactivitySecs |-> 0, price |-> << 1235 >>, priceUnit |-> "EUR"] >>,
    << [timestamp |-> 30, totalConsumptionWh |-> 0, totalDurationSecs |-> 29,
        totalInactivitySecs |-> 30, price |-> << >>, priceUnit |-> "USD"] >> }
CsvUsers == { << >>, << [id |-> "U1", name |-> "DOE John"] >> }
CsvTransactions ==
  { [id |-> 501, chargeBoxID |-> StationID, connectorId |-> 1, timestamp |-> 10,
     user |-> user, stop |-> stop] : user \in CsvUsers, stop \in CsvStops }
CsvInputs == UNION { [1..n -> CsvTransactions] : n \in 0..MaxCsvRows }

\* One export: convertToCSV applied to a list of transactions.
CsvConvert(r) ==
  /\ pc[r] \in {"idle", "done"}
  /\ \E txs \in CsvInputs, writeHeader \in BOOLEAN :
       /\ Fresh(r, [op |-> "convertToCSV", tenantID |-> "T1", transactions |-> txs,
                    writeHeader |-> writeHeader])
       /\ response' = [response EXCEPT ![r] =
                         Success([csv |-> ConvertToCSV(txs, writeHeader)])]
  /\ pc' = [pc EXCEPT ![r] = "done"]
  /\ UNCHANGED << transactions, stations, refundImpl, billingImpl, cdrSent >>

\* ------------------------------------------------------------ initial states
\* Connector bindings a store may hold: a connector is unbound or bound to a
\* stored transaction in progress that was started on it.
Bindings(store, connectorId) ==
  {0} \cup { id \in DOMAIN store :
               ~store[id].stop /\ store[id].connectorId = connectorId }

IdleSlots ==
  /\ pc = [r \in Procs |-> "idle"]
  /\ req = [r \in Procs |-> NoRequest]
  /\ idx = [r \in Procs |-> 1]
  /\ toDelete = [r \in Procs |-> << >>]
  /\ result = [r \in Procs |-> [inSuccess |-> 0, inError |-> 0]]
  /\ toRefund = [r \in Procs |-> << >>]
  /\ cur = [r \in Procs |-> NoTransaction]
  /\ response = [r \in Procs |-> NoResponse]
  /\ log = [r \in Procs |-> << >>]
  /\ calls = [r \in Procs |-> << >>]
  /\ cdrSent = [tenantID \in Tenants |-> [id \in TxIds |-> 0]]
  /\ begin = [r \in Procs |-> [transactions |-> transactions, stations |-> stations]]

\* Tenant T2: one transaction in progress under the id 501, on connector 1.
OtherTenantStore == 501 :> Tx(501, 1, FALSE, NoRefundData, "", TRUE, NoOcpiData)
OtherTenantStations == StationID :> Station(501, 0)

\* Stores of tenant T1 for the delete requests: 501 (connector 1) in every
\* refund, billing and stop state; 502 without financial data, completed or
\* in progress on connector 1 or on connector 3, which the station lacks.
Tx501Values ==
  { Tx(501, 1, st, rf, inv, TRUE, NoOcpiData) :
      st \in BOOLEAN, rf \in RefundDataValues, inv \in {"", "INV1"} }
Tx502Values ==
  { Tx(502, 1, TRUE, NoRefundData, "", TRUE, NoOcpiData),
    Tx(502, 1, FALSE, NoRefundData, "", TRUE, NoOcpiData),
    Tx(502, 3, FALSE, NoRefundData, "", TRUE, NoOcpiData) }
DeleteStores ==
  { s \in UNION { [D -> Tx501Values \cup Tx502Values] : D \in SUBSET TxIds } :
      \A id \in DOMAIN s : s[id].id = id }

InitDelete ==
  /\ \E s \in DeleteStores, c1 \in TxIds \cup {0} :
       /\ c1 \in Bindings(s, 1)
       /\ transactions = ("T1" :> s) @@ ("T2" :> OtherTenantStore)
       /\ stations = ("T1" :> (StationID :> Station(c1, 0))) @@ ("T2" :> OtherTenantStations)
  /\ refundImpl \in { f \in [Tenants -> BOOLEAN] : f["T2"] }
  /\ billingImpl \in { f \in [Tenants -> BOOLEAN] : f["T2"] }
  /\ IdleSlots

NextDelete ==
  \E r \in SeqProcs :
    \/ DeleteStart(r, "T1")
    \/ DeleteExamine(r)
    \/ DeleteSaveStation(r)
    \/ DeleteBulk(r)

SpecDelete == InitDelete /\ [][NextDelete]_vars

\* Both delete endpoints, one request after the other.
NextDeleteAny ==
  \E r \in SeqProcs :
    \/ DeleteStart(r, "T1")
    \/ DeleteOneStart(r, "T1")
    \/ DeleteOneGet(r)
    \/ DeleteExamine(r)
    \/ DeleteSaveStation(r)
    \/ DeleteBulk(r)

SpecDeleteAny == InitDelete /\ [][NextDeleteAny]_vars

\* Stores of tenant T1 for two delete requests running at once: 501 completed
\* or in progress on connector 1, 502 completed or absent.
RaceStores ==
  { (501 :> Tx(501, 1, st, NoRefundData, "", TRUE, NoOcpiData)) @@
    (IF with502 THEN 502 :> Tx(502, 1, TRUE, NoRefundData, "", TRUE, NoOcpiData)
                ELSE << >>) :
      st \in BOOLEAN, with502 \in BOOLEAN }

InitRace ==
  /\ \E s \in RaceStores :
       /\ transactions = ("T1" :> s) @@ ("T2" :> OtherTenantStore)
       /\ stations = ("T1" :> (StationID :> Station(IF s[501].stop THEN 0 ELSE 501, 0)))
                       @@ ("T2" :> OtherTenantStations)
  /\ refundImpl = [tenantID \in Tenants |-> TRUE]
  /\ billingImpl = [tenantID \in Tenants |-> TRUE]
  /\ IdleSlots

\* Two bulk delete requests, one per slot, their steps interleaved at the
\* awaits of deleteTransactions.
NextRace ==
  \E r \in Procs :
    \/ (pc[r] = "idle" /\ DeleteStart(r, "T1"))
    \/ DeleteExamine(r)
    \/ DeleteSaveStation(r)
    \/ DeleteBulk(r)

SpecRace == InitRace /\ [][NextRace]_vars

\* A refund request in slot 1 and a bulk delete request in slot 2 running at
\* once, their steps interleaved at the awaits of the two handlers.
NextRefundDelete ==
  \/ (pc[1] = "idle" /\ RefundStart(1, "T1"))
  \/ (pc[2] = "idle" /\ DeleteStart(2, "T1"))
  \/ \E r \in Procs :
       \/ RefundExamine(r)
       \/ RefundSubmit(r)
       \/ DeleteExamine(r)
       \/ DeleteSaveStation(r)
       \/ DeleteBulk(r)

SpecRefundDelete == InitRace /\ [][NextRefundDelete]_vars

\* Two refund requests running at once.
NextRefundRace ==
  \E r \in Procs :
    \/ (pc[r] = "idle" /\ RefundStart(r, "T1"))
    \/ RefundExamine(r)
    \/ RefundSubmit(r)

SpecRefundRace == InitRace /\ [][NextRefundRace]_vars

\* Delete requests of either endpoint by users of both tenants, one request
\* after the other.
NextTenants ==
  \E r \in SeqProcs : \E tenantID \in Tenants :
    \/ DeleteStart(r, tenantID)
    \/ DeleteOneStart(r, tenantID)
    \/ DeleteOneGet(r)
    \/ DeleteExamine(r)
    \/ DeleteSaveStation(r)
    \/ DeleteBulk(r)

SpecTenants == InitRace /\ [][NextTenants]_vars

\* Stores of tenant T1 for the refund requests: 501 and 502 completed, each
\* absent or in one of the refund states.
RefundStores ==
  { s \in UNION { [D -> { Tx(id, 1, TRUE, rf, "", TRUE, NoOcpiData) :
                            id \in TxIds, rf \in RefundDataValues }] :
                  D \in SUBSET TxIds } :
      \A id \in DOMAIN s : s[id].id = id }

InitRefund ==
  /\ \E s \in RefundStores :
       transactions = ("T1" :> s) @@ ("T2" :> OtherTenantStore)
  /\ stations = ("T1" :> (StationID :> Station(0, 0))) @@ ("T2" :> OtherTenantStations)
  /\ refundImpl \in { f \in [Tenants -> BOOLEAN] : f["T2"] }
  /\ billingImpl = [tenantID \in Tenants |-> TRUE]
  /\ IdleSlots

NextRefund ==
  \E r \in SeqProcs :
    \/ RefundStart(r, "T1")
    \/ RefundExamine(r)
    \/ RefundSubmit(r)

SpecRefund == InitRefund /\ [][NextRefund]_vars


\* Stores of tenant T1 for the CDR requests: 501 and 502 completed, each
\* absent or with any issuer flag and ocpiData absent, present, or present
\* with the id of a pushed CDR; the station S1 stored or not.
OcpiDataValues ==
  { NoOcpiData, [present |-> TRUE, cdrId |-> ""], [present |-> TRUE, cdrId |-> "CDR0"] }
CdrStores ==
  { s \in UNION { [D -> { Tx(id, 1, TRUE, NoRefundData, "", issuer, ocpi) :
                            id \in TxIds, issuer \in BOOLEAN, ocpi \in OcpiDataValues }] :
                  D \in SUBSET TxIds } :
      \A id \in DOMAIN s : s[id].id = id }

InitCdr ==
  /\ \E s \in CdrStores :
       transactions = ("T1" :> s) @@ ("T2" :> OtherTenantStore)
  /\ \E st \in { << >>, StationID :> Station(0, 0) } :
       stations = ("T1" :> st) @@ ("T2" :> OtherTenantStations)
  /\ refundImpl = [tenantID \in Tenants |-> TRUE]
  /\ billingImpl = [tenantID \in Tenants |-> TRUE]
  /\ IdleSlots

NextCdr ==
  \E r \in SeqProcs :
    \/ CdrStart(r, "T1")
    \/ CdrGetTransaction(r)
    \/ CdrGetStation(r)
    \/ CdrPost(r)
    \/ CdrSave(r)

SpecCdr == InitCdr /\ [][NextCdr]_vars

\* Two CDR push requests running at once, one per slot, over a store whose
\* transactions are issued by the tenant and carry ocpiData without CDR id.
InitCdrRace ==
  /\ \E D \in {{501}, {501, 502}} :
       transactions =
         ("T1" :> [id \in D |-> Tx(id, 1, TRUE, NoRefundData, "", TRUE,
                                     [present |-> TRUE, cdrId |-> ""])])
         @@ ("T2" :> OtherTenantStore)
  /\ stations = ("T1" :> (StationID :> Station(0, 0))) @@ ("T2" :> OtherTenantStations)
  /\ refundImpl = [tenantID \in Tenants |-> TRUE]
  /\ billingImpl = [tenantID \in Tenants |-> TRUE]
  /\ IdleSlots

NextCdrRace ==
  \E r \in Procs :
    \/ (pc[r] = "idle" /\ CdrStart(r, "T1"))
    \/ CdrGetTransaction(r)
    \/ CdrGetStation(r)
    \/ CdrPost(r)
    \/ CdrSave(r)

SpecCdrRace == InitCdrRace /\ [][NextCdrRace]_vars

\* Stores of tenant T1 for the assignment requests: completed transactions
\* carrying their owner, 501 unassigned or owned by U1, 502 absent, unassigned
\* or owned by U1.
Owned(tx, userID) == tx @@ [userID |-> userID]
AssignStores ==
  { (501 :> Owned(Tx(501, 1, TRUE, NoRefundData, "", TRUE, NoOcpiData), o1)) @@
    (IF o2 = "none" THEN << >>
     ELSE 502 :> Owned(Tx(502, 1, TRUE, NoRefundData, "", TRUE, NoOcpiData), o2)) :
      o1 \in {"", "U1"}, o2 \in {"none", "", "U1"} }

InitAssign ==
  /\ \E s \in AssignStores :
       transactions = ("T1" :> s) @@ ("T2" :> OtherTenantStore)
  /\ stations = ("T1" :> (StationID :> Station(0, 0))) @@ ("T2" :> OtherTenantStations)
  /\ refundImpl = [tenantID \in Tenants |-> TRUE]
  /\ billingImpl = [tenantID \in Tenants |-> TRUE]
  /\ IdleSlots

NextAssign ==
  \E r \in SeqProcs :
    \/ AssignStart(r, "T1")
    \/ AssignGetUser(r)
    \/ AssignStore(r)

SpecAssign == InitAssign /\ [][NextAssign]_vars

NextInError ==
  \E r \in SeqProcs :
    \/ InErrorStart(r, "T1")
    \/ InErrorAnswer(r)

SpecInError == InitAssign /\ [][NextInError]_vars

NextCsv == \E r \in SeqProcs : CsvConvert(r)

SpecCsv == InitAssign /\ [][NextCsv]_vars

\* ================================================================ claims
\* Vocabulary of the claims, over the stores a request started from.
BeginStore(r) == begin[r].transactions[req[r].tenantID]
BeginStations(r) == begin[r].stations[req[r].tenantID]
NowStore(r) == transactions[req[r].tenantID]
IsDelete(r) == req[r].op = "deleteTransactions"
Answered(r) == pc[r] = "done" /\ response[r].kind = "success"
Failed(r) == pc[r] = "done" /\ response[r].kind \notin {"success", "none"}
CallsOf(r, op) == { k \in DOMAIN calls[r] : calls[r][k].op = op }
\* The positions of the request's id list that hold an id of the set ids.
Positions(r, ids) == { i \in DOMAIN req[r].ids : req[r].ids[i] \in ids }

\* Non-empty refundId and a status other than CANCELLED.
RefundHeld(tx) ==
  tx.refundData.refundId # "" /\ tx.refundData.status # RefundStatus.CANCELLED
Invoiced(tx) == tx.billingData.invoiceID # ""

\* The id was not handed to the bulk delete and its document is as it was.
KeptByDelete(r, id) ==
  /\ \A k \in CallsOf(r, "deleteTransactions") : id \notin Range(calls[r][k].ids)
  /\ id \notin Range(toDelete[r])
  /\ id \in DOMAIN NowStore(r)
  /\ NowStore(r)[id] = BeginStore(r)[id]

\* The answer counts every position holding an id of the set ids as an error.
CountedInError(r, ids) ==
  Answered(r) =>
    /\ response[r].body.inError >= Cardinality(Positions(r, ids))
    /\ response[r].body.inSuccess <= Len(req[r].ids) - Cardinality(Positions(r, ids))

RefundHeldAtBegin(r, id) == id \in DOMAIN BeginStore(r) /\ RefundHeld(BeginStore(r)[id])
InvoicedAtBegin(r, id) == id \in DOMAIN BeginStore(r) /\ Invoiced(BeginStore(r)[id])
RefundHeldIds(r) == { id \in TxIds : RefundHeldAtBegin(r, id) }
InvoicedIds(r) == { id \in TxIds : InvoicedAtBegin(r, id) }

\* C1 as stated: a delete request never hands a transaction with a non-empty
\* refundId and a status other than CANCELLED to the bulk delete, leaves its
\* document unchanged, counts it in inError, and does not throw.
C1_AsStated ==
  \A r \in Procs :
    (IsDelete(r) /\ req[r].canDeleteTransaction) =>
      /\ \A id \in Range(req[r].ids) : RefundHeldAtBegin(r, id) => KeptByDelete(r, id)
      /\ CountedInError(r, RefundHeldIds(r))
      /\ ((\E id \in Range(req[r].ids) : RefundHeldAtBegin(r, id)) => ~Failed(r))

\* C1 amended: the same, for a tenant that has a refund integration.
C1_RefundHeldIsKept ==
  \A r \in Procs :
    (IsDelete(r) /\ req[r].canDeleteTransaction /\ refundImpl[req[r].tenantID]) =>
      /\ \A id \in Range(req[r].ids) : RefundHeldAtBegin(r, id) => KeptByDelete(r, id)
      /\ CountedInError(r, RefundHeldIds(r))
      /\ ((\E id \in Range(req[r].ids) : RefundHeldAtBegin(r, id)) => ~Failed(r))

\* The scenario of the claim: batch-delete [501], 501 holding {R1, SUBMITTED},
\* answered {inSuccess: 0, inError: 1} with the document still stored.
C1_Witness ==
  \E r \in Procs :
    /\ IsDelete(r) /\ Answered(r) /\ refundImpl[req[r].tenantID]
    /\ req[r].ids = << 501 >>
    /\ RefundHeldAtBegin(r, 501)
    /\ BeginStore(r)[501].refundData.status = RefundStatus.SUBMITTED
    /\ response[r].body.inSuccess = 0 /\ response[r].body.inError = 1
    /\ 501 \in DOMAIN NowStore(r)

\* C2 as stated: a delete request never hands a transaction with a non-empty
\* invoiceID to the bulk delete, whatever its refund state; it counts it in
\* inError and its document is still stored after the request.
C2_AsStated ==
  \A r \in Procs :
    (IsDelete(r) /\ req[r].canDeleteTransaction) =>
      /\ \A id \in Range(req[r].ids) : InvoicedAtBegin(r, id) => KeptByDelete(r, id)
      /\ CountedInError(r, InvoicedIds(r))

\* C2 amended: the same, for a tenant that has a billing integration.
C2_InvoicedIsKept ==
  \A r \in Procs :
    (IsDelete(r) /\ req[r].canDeleteTransaction /\ billingImpl[req[r].tenantID]) =>
      /\ \A id \in Range(req[r].ids) : InvoicedAtBegin(r, id) => KeptByDelete(r, id)
      /\ CountedInError(r, InvoicedIds(r))

\* An answered delete of an invoiced transaction that no refund check stopped.
C2_Witness ==
  \E r \in Procs :
    /\ IsDelete(r) /\ Answered(r) /\ billingImpl[req[r].tenantID]
    /\ \E id \in Range(req[r].ids) :
         /\ InvoicedAtBegin(r, id)
         /\ ~RefundHeld(BeginStore(r)[id])
         /\ id \in DOMAIN NowStore(r)
    /\ response[r].body.inError >= 1

\* The connector of the station store that the transaction id names, when the
\* request started: bound to the transaction, which had no stop.
OccupantAtBegin(r, id) ==
  /\ id \in DOMAIN BeginStore(r)
  /\ ~BeginStore(r)[id].stop
  /\ BeginStore(r)[id].chargeBoxID \in DOMAIN BeginStations(r)
  /\ LET station == BeginStations(r)[BeginStore(r)[id].chargeBoxID]
         connectorId == BeginStore(r)[id].connectorId
     IN /\ connectorId \in DOMAIN station.connectors
        /\ station.connectors[connectorId].currentTransactionID = id

\* No connector of the tenant's station store names the id.
Unreferenced(tenantID, id) ==
  \A s \in DOMAIN stations[tenantID] :
    \A c \in DOMAIN stations[tenantID][s].connectors :
      stations[tenantID][s].connectors[c].currentTransactionID # id

DeletedBy(r, id) ==
  /\ IsDelete(r) /\ Answered(r)
  /\ id \in DOMAIN BeginStore(r) /\ id \notin DOMAIN NowStore(r)

\* Some getTransaction of the request gave the id with its chargeBox attached.
FetchedWithChargeBox(r, id) ==
  \E k \in CallsOf(r, "getTransaction") :
    /\ calls[r][k].id = id
    /\ calls[r][k].transaction # NoTransaction
    /\ calls[r][k].transaction.chargeBox # << >>

\* C3 as stated: after a delete request that deletes a transaction in progress
\* that occupied its connector, no connector of the station store references
\* the deleted id.
C3_AsStated ==
  \A r \in Procs : \A id \in TxIds :
    (DeletedBy(r, id) /\ OccupantAtBegin(r, id)) => Unreferenced(req[r].tenantID, id)

\* C3 amended: the same, when getTransaction attached the chargeBox to the
\* transaction.
C3_OccupantIsReleased ==
  \A r \in Procs : \A id \in TxIds :
    (DeletedBy(r, id) /\ OccupantAtBegin(r, id) /\ FetchedWithChargeBox(r, id)) =>
      Unreferenced(req[r].tenantID, id)

\* The scenario of the claim: batch-delete [502], 502 in progress on connector
\* 1 of S1, answered {inSuccess: 1, inError: 0} with the connector unset.
C3_Witness ==
  \E r \in Procs :
    /\ DeletedBy(r, 502) /\ OccupantAtBegin(r, 502) /\ FetchedWithChargeBox(r, 502)
    /\ req[r].ids = << 502 >>
    /\ response[r].body.inSuccess = 1 /\ response[r].body.inError = 0
    /\ stations[req[r].tenantID][StationID].connectors[1].currentTransactionID = 0
    /\ CallsOf(r, "saveChargingStation") # {}

\* An id the delete loop skips: not stored, or held by the refund check of a
\* present refund integration, or invoiced under a present billing integration.
Ineligible(r, id) ==
  \/ id \notin DOMAIN BeginStore(r)
  \/ refundImpl[req[r].tenantID] /\ RefundHeldAtBegin(r, id)
  \/ billingImpl[req[r].tenantID] /\ InvoicedAtBegin(r, id)
BatchN(r) == Len(req[r].ids)
BatchM(r) == Cardinality(Positions(r, { id \in TxIds : Ineligible(r, id) }))
EligibleIds(r) == { id \in Range(req[r].ids) : ~Ineligible(r, id) }

\* C4 as stated: a delete of a list of N ids, M of them ineligible, answers
\* inSuccess = N - M and inError = M.
C4_AsStated ==
  \A r \in Procs :
    (IsDelete(r) /\ Answered(r)) =>
      /\ response[r].body.inSuccess = BatchN(r) - BatchM(r)
      /\ response[r].body.inError = BatchM(r)

\* C4 amended: inError = M, and inSuccess is the number of distinct eligible
\* ids of the list, which is N - M when no eligible id occurs twice.
C4_Counts ==
  \A r \in Procs :
    (IsDelete(r) /\ Answered(r)) =>
      /\ response[r].body.inError = BatchM(r)
      /\ response[r].body.inSuccess = Cardinality(EligibleIds(r))
      /\ (Cardinality(EligibleIds(r)) = BatchN(r) - BatchM(r) =>
            response[r].body.inSuccess + response[r].body.inError = BatchN(r))

\* An answered delete of two ids, one eligible and one not.
C4_Witness ==
  \E r \in Procs :
    /\ IsDelete(r) /\ Answered(r)
    /\ BatchN(r) = 2 /\ BatchM(r) = 1
    /\ response[r].body.inSuccess = 1 /\ response[r].body.inError = 1

\* ---------------------------------------------------------- refund claims
IsRefund(r) == req[r].op = "refundTransactions"
IdsOf(txs) == [i \in DOMAIN txs |-> txs[i].id]
StoredAtBegin(r, id) == id \in DOMAIN BeginStore(r)
\* The ids of the list that are stored and not already refunded, in list order.
NotYetRefunded(r) ==
  Pick(req[r].ids, { i \in DOMAIN req[r].ids :
                       /\ StoredAtBegin(r, req[r].ids[i])
                       /\ ~RefundHeld(BeginStore(r)[req[r].ids[i]]) })
\* Nothing but an already-refunded id could stop the request.
OnlyRefundedInTheWay(r) ==
  /\ IsRefund(r) /\ req[r].hasTransactionIds
  /\ \A id \in Range(req[r].ids) : StoredAtBegin(r, id)
  /\ Range(NotYetRefunded(r)) \subseteq req[r].canRefundTransaction
  /\ HasUser(req[r].tenantID, req[r].userID)
  /\ refundImpl[req[r].tenantID]

\* C5: a refund request never hands a transaction with a non-empty refundId
\* and a status other than CANCELLED to the refund integration and does not
\* count it in inSuccess; such an id does not make the request fail, the other
\* ids (those with a CANCELLED refund too) are collected and submitted.
C5_RefundedIsSkipped ==
  \A r \in Procs :
    IsRefund(r) =>
      /\ \A i \in DOMAIN toRefund[r] : ~RefundHeld(BeginStore(r)[toRefund[r][i].id])
      /\ \A k \in CallsOf(r, "refund") :
           \A i \in DOMAIN calls[r][k].transactions :
             ~RefundHeld(BeginStore(r)[calls[r][k].transactions[i].id])
      /\ OnlyRefundedInTheWay(r) =>
           /\ ~Failed(r)
           /\ (pc[r] \in {"refund_submit", "done"} => IdsOf(toRefund[r]) = NotYetRefunded(r))
           /\ (Answered(r) => response[r].body.inSuccess <= Len(NotYetRefunded(r)))

\* An answered refund of a list holding a submitted refund and a cancelled
\* one: only the cancelled one was handed over.
C5_Witness ==
  \E r \in Procs :
    /\ IsRefund(r) /\ Answered(r)
    /\ \E a \in Range(req[r].ids), b \in Range(req[r].ids) :
         /\ RefundHeldAtBegin(r, a)
         /\ StoredAtBegin(r, b)
         /\ BeginStore(r)[b].refundData.status = RefundStatus.CANCELLED
         /\ \E k \in CallsOf(r, "refund") : IdsOf(calls[r][k].transactions) = << b >>
    /\ response[r].body.inSuccess = 1

\* The list holds a stored, not already refunded id that the caller may not
\* refund.
HoldsDeniedId(r) ==
  /\ IsRefund(r) /\ req[r].hasTransactionIds
  /\ \E id \in Range(NotYetRefunded(r)) : id \notin req[r].canRefundTransaction

\* C6: when the list holds an id whose capability check fails, the refund
\* integration is never invoked, no transaction is refunded and the request
\* is not answered; once the check has failed the request has ended with the
\* authorization error.
C6_DeniedAbortsBatch ==
  \A r \in Procs :
    /\ HoldsDeniedId(r) =>
         /\ CallsOf(r, "refund") = {}
         /\ NowStore(r) = BeginStore(r)
         /\ ~Answered(r)
    /\ (IsRefund(r) /\ \E k \in CallsOf(r, "canRefundTransaction") : ~calls[r][k].allowed) =>
         /\ pc[r] = "done" /\ response[r].kind = "AppAuthError"
         /\ CallsOf(r, "refund") = {}
         /\ NowStore(r) = BeginStore(r)

\* A request whose first id passed the check and whose second id failed it.
C6_Witness ==
  \E r \in Procs :
    /\ IsRefund(r) /\ pc[r] = "done" /\ response[r].kind = "AppAuthError"
    /\ Len(toRefund[r]) = 1
    /\ \E k \in CallsOf(r, "canRefundTransaction") : calls[r][k].allowed
    /\ \E k \in CallsOf(r, "canRefundTransaction") : ~calls[r][k].allowed
    /\ CallsOf(r, "refund") = {}

\* Nothing but an id that is not stored could stop the request.
OnlyMissingInTheWay(r) ==
  /\ IsRefund(r) /\ req[r].hasTransactionIds
  /\ \E id \in Range(req[r].ids) : ~StoredAtBegin(r, id)
  /\ Range(NotYetRefunded(r)) \subseteq req[r].canRefundTransaction
  /\ HasUser(req[r].tenantID, req[r].userID)
  /\ refundImpl[req[r].tenantID]

\* C7: an id whose transaction is not stored does not make a refund request
\* fail; the remaining ids are still collected for the refund integration.
C7_AsStated ==
  \A r \in Procs :
    OnlyMissingInTheWay(r) =>
      /\ ~Failed(r)
      /\ (pc[r] = "done" => /\ IdsOf(toRefund[r]) = NotYetRefunded(r)
                            /\ CallsOf(r, "refund") # {})

\* C8: the answer of a refund request has inSuccess = the number of
\* transactions the integration refunded; it has the key inError exactly when
\* fewer were refunded than submitted, and inError is then the shortfall.
C8_RefundAnswer ==
  \A r \in Procs :
    (IsRefund(r) /\ Answered(r)) =>
      /\ Cardinality(CallsOf(r, "refund")) = 1
      /\ \A k \in CallsOf(r, "refund") :
           LET submitted == Len(calls[r][k].transactions)
               refunded == Len(calls[r][k].refunded)
           IN /\ response[r].body.inSuccess = refunded
              /\ ("inError" \in response[r].keys) <=> (refunded < submitted)
              /\ ("inError" \in response[r].keys =>
                    response[r].body.inError = submitted - refunded)
              /\ submitted = Len(NotYetRefunded(r))

\* The scenario of the claim: one eligible id, one accepted, {inSuccess: 1}
\* with no inError key.
C8_Witness ==
  \E r \in Procs :
    /\ IsRefund(r) /\ Answered(r)
    /\ Len(req[r].ids) = 1 /\ Len(toRefund[r]) = 1
    /\ BeginStore(r)[req[r].ids[1]].refundData.refundId = ""
    /\ response[r].body.inSuccess = 1
    /\ "inError" \notin response[r].keys

\* A refund answered with a shortfall, next to a skipped id.
C8_WitnessShortfall ==
  \E r \in Procs :
    /\ IsRefund(r) /\ Answered(r)
    /\ "inError" \in response[r].keys

\* C9: for a tenant without refund implementation a refund request is never
\* answered with success, ends in an error, invokes no refund and leaves the
\* transaction store as it was.
C9_NoImplementationFails ==
  \A r \in Procs :
    (IsRefund(r) /\ ~refundImpl[req[r].tenantID]) =>
      /\ ~Answered(r)
      /\ (pc[r] = "done" => Failed(r))
      /\ CallsOf(r, "refund") = {}
      /\ NowStore(r) = BeginStore(r)

\* A request whose every id was skipped, ended by the missing implementation.
C9_Witness ==
  \E r \in Procs :
    /\ IsRefund(r) /\ ~refundImpl[req[r].tenantID]
    /\ pc[r] = "done"
    /\ response[r].kind = "AppError: No Refund Implementation Found"
    /\ req[r].ids # << >> /\ toRefund[r] = << >>
    /\ \A id \in Range(req[r].ids) : RefundHeldAtBegin(r, id)

\* ------------------------------------------------------------- CDR claims
IsCdrPush(r) == req[r].op = "pushTransactionCdr"
\* The request passes every check before the already-pushed guard.
ReachesCdrGuard(r) ==
  /\ IsCdrPush(r)
  /\ req[r].transactionId # 0 /\ req[r].canUpdateTransaction
  /\ StoredAtBegin(r, req[r].transactionId)
  /\ BeginStore(r)[req[r].transactionId].chargeBoxID \in DOMAIN BeginStations(r)
  /\ BeginStore(r)[req[r].transactionId].issuer
  /\ BeginStore(r)[req[r].transactionId].ocpiData.present
PushedAtBegin(r) ==
  /\ StoredAtBegin(r, req[r].transactionId)
  /\ BeginStore(r)[req[r].transactionId].ocpiData.cdrId # ""

\* C10: of CDR push requests made one after the other on a transaction, one
\* sends: the roaming collaborator sends at most one CDR per transaction; an
\* answered push leaves the CDR id stored; a push that starts after a CDR was
\* sent finds that id, neither sends nor saves, is not answered, and ends with
\* the already-pushed error once it reaches the guard.
C10_PushOnce ==
  /\ \A tenantID \in Tenants, id \in TxIds : cdrSent[tenantID][id] <= 1
  /\ \A r \in Procs :
       IsCdrPush(r) =>
         /\ Answered(r) =>
              /\ cdrSent[req[r].tenantID][req[r].transactionId] = 1
              /\ NowStore(r)[req[r].transactionId].ocpiData.cdrId # ""
         /\ (/\ req[r].transactionId # 0
             /\ cdrSent[req[r].tenantID][req[r].transactionId] >= 1
             /\ CallsOf(r, "processOCPITransaction") = {}) => PushedAtBegin(r)
         /\ PushedAtBegin(r) =>
              /\ CallsOf(r, "processOCPITransaction") = {}
              /\ CallsOf(r, "saveTransaction") = {}
              /\ ~Answered(r)
              /\ NowStore(r) = BeginStore(r)
              /\ (pc[r] = "done" /\ ReachesCdrGuard(r) =>
                    response[r].kind = "AppError: TRANSACTION_CDR_ALREADY_PUSHED")

\* The second push of a transaction whose CDR an earlier request sent: it
\* ended with the already-pushed error without sending.
C10_Witness ==
  \E r \in Procs :
    /\ IsCdrPush(r) /\ pc[r] = "done"
    /\ response[r].kind = "AppError: TRANSACTION_CDR_ALREADY_PUSHED"
    /\ cdrSent[req[r].tenantID][req[r].transactionId] = 1
    /\ BeginStore(r)[req[r].transactionId].ocpiData.cdrId = "CDR1"
    /\ CallsOf(r, "processOCPITransaction") = {}

\* The error of the first precondition of a CDR push that the stores at the
\* start of the request do not meet, "" when they meet all of them.
CdrPreconditionError(r) ==
  LET id == req[r].transactionId
  IN IF id = 0 THEN "AppError: The ID must be provided"
     ELSE IF ~req[r].canUpdateTransaction THEN "AppAuthError"
     ELSE IF ~StoredAtBegin(r, id) THEN "AppError: Transaction does not exist"
     ELSE IF BeginStore(r)[id].chargeBoxID \notin DOMAIN BeginStations(r)
       THEN "AppError: Charging Station does not exist"
     ELSE IF ~BeginStore(r)[id].issuer THEN "AppError: TRANSACTION_NOT_FROM_TENANT"
     ELSE IF ~BeginStore(r)[id].ocpiData.present
       THEN "AppError: TRANSACTION_WITH_NO_OCPI_DATA"
     ELSE IF BeginStore(r)[id].ocpiData.cdrId # ""
       THEN "AppError: TRANSACTION_CDR_ALREADY_PUSHED"
     ELSE ""

\* The store with the CDR id set on the document of id, nothing else changed.
StoreAfterSaveOf(store, id) ==
  [ i \in DOMAIN store |->
      IF i = id THEN [store[i] EXCEPT !.ocpiData.cdrId = "CDR1"] ELSE store[i] ]

\* C11: a CDR push sends and saves only when every precondition holds (id
\* given, caller may update, transaction and station stored, issuer, ocpiData
\* present, no CDR id); otherwise it ends with the error of the first failed
\* precondition, sends nothing and leaves the store unchanged; the save comes
\* after the send.
C11_PreconditionChain ==
  \A r \in Procs :
    IsCdrPush(r) =>
      /\ CdrPreconditionError(r) # "" =>
           /\ CallsOf(r, "processOCPITransaction") = {}
           /\ CallsOf(r, "saveTransaction") = {}
           /\ NowStore(r) = BeginStore(r)
           /\ ~Answered(r)
           /\ (pc[r] = "done" => response[r].kind = CdrPreconditionError(r))
      /\ \A k \in CallsOf(r, "saveTransaction") :
           \E j \in CallsOf(r, "processOCPITransaction") : j < k
      /\ Answered(r) =>
           /\ CdrPreconditionError(r) = ""
           /\ Cardinality(CallsOf(r, "processOCPITransaction")) = 1
           /\ Cardinality(CallsOf(r, "saveTransaction")) = 1
           /\ NowStore(r) = StoreAfterSaveOf(BeginStore(r), req[r].transactionId)
      /\ (pc[r] = "done" /\ CdrPreconditionError(r) = "") => Answered(r)

\* An answered push: sent, then saved.
C11_Witness ==
  \E r \in Procs :
    /\ IsCdrPush(r) /\ Answered(r)
    /\ \E j \in CallsOf(r, "processOCPITransaction"), k \in CallsOf(r, "saveTransaction") :
         j < k
    /\ BeginStore(r)[req[r].transactionId].ocpiData.cdrId = ""
    /\ NowStore(r)[req[r].transactionId].ocpiData.cdrId # ""

\* ------------------------------------------------- batch and authorization
\* The ids the request asked getTransaction for, in call order.
FetchedIds(r) == IdsOf(Pick(calls[r], CallsOf(r, "getTransaction")))

\* C12: an authorized bulk delete never throws over an id; it examines every
\* id of the list in order, deletes every eligible id whatever stands before
\* or after it, and answers a success envelope carrying inSuccess and inError,
\* also when inError > 0.
C12_PartialFailureBatch ==
  \A r \in Procs :
    (IsDelete(r) /\ req[r].canDeleteTransaction) =>
      /\ ~Failed(r)
      /\ pc[r] = "done" =>
           /\ Answered(r)
           /\ response[r].body.status = "Success"
           /\ {"inSuccess", "inError"} \subseteq response[r].keys
           /\ FetchedIds(r) = req[r].ids
           /\ \A id \in EligibleIds(r) : id \notin DOMAIN NowStore(r)
           /\ \A k \in CallsOf(r, "deleteTransactions") :
                Range(calls[r][k].ids) = EligibleIds(r)

\* An answered delete of [ineligible, eligible]: the second id is gone and the
\* envelope reports the first in inError.
C12_Witness ==
  \E r \in Procs :
    /\ IsDelete(r) /\ Answered(r) /\ Len(req[r].ids) = 2
    /\ Ineligible(r, req[r].ids[1])
    /\ ~Ineligible(r, req[r].ids[2])
    /\ req[r].ids[2] \notin DOMAIN NowStore(r)
    /\ response[r].body.inError = 1 /\ response[r].body.status = "Success"

IsDeleteOne(r) == req[r].op = "deleteTransaction"
IsAnyDelete(r) == IsDelete(r) \/ IsDeleteOne(r)

\* C13: a delete request, single or bulk, of a caller without the delete
\* capability ends with an authorization error before any collaborator is
\* called, and leaves the transaction and charging-station stores as they were.
C13_AuthorizationIsPreflight ==
  \A r \in Procs :
    (IsAnyDelete(r) /\ ~req[r].canDeleteTransaction) =>
      /\ pc[r] = "done"
      /\ response[r] = Failure("AppAuthError")
      /\ calls[r] = << >>
      /\ transactions = begin[r].transactions
      /\ stations = begin[r].stations

\* A refused single delete of a stored transaction in progress that occupies
\* its connector: still stored, connector still bound.
C13_Witness ==
  \E r \in Procs :
    /\ IsDeleteOne(r) /\ ~req[r].canDeleteTransaction /\ Failed(r)
    /\ OccupantAtBegin(r, req[r].transactionId)
    /\ req[r].transactionId \in DOMAIN NowStore(r)
    /\ ~Unreferenced(req[r].tenantID, req[r].transactionId)

\* The same for a refused bulk delete.
C13_WitnessBulk ==
  \E r \in Procs :
    /\ IsDelete(r) /\ ~req[r].canDeleteTransaction /\ Failed(r)
    /\ \E id \in Range(req[r].ids) : OccupantAtBegin(r, id) /\ ~Unreferenced(req[r].tenantID, id)

\* --------------------------------------------------------- financial holds
\* The connector the transaction named at the start of the request is still
\* bound to it in the station store.
StillOccupant(r, id) ==
  LET station == stations[req[r].tenantID][BeginStore(r)[id].chargeBoxID]
  IN station.connectors[BeginStore(r)[id].connectorId].currentTransactionID = id

\* No saveChargingStation of the request wrote a station with the connector of
\* the transaction released.
NoReleasingSave(r, id) ==
  \A k \in CallsOf(r, "saveChargingStation") :
    calls[r][k].chargeBox.connectors[BeginStore(r)[id].connectorId].currentTransactionID = id

\* The messages the request logged about the id.
MessagesAbout(r, id) == { log[r][k].message : k \in { n \in DOMAIN log[r] : log[r][n].id = id } }

HeldOccupantIsKept(r, id) ==
  /\ KeptByDelete(r, id)
  /\ StillOccupant(r, id)
  /\ NoReleasingSave(r, id)

\* C14 as stated: a transaction in progress that occupies its connector and
\* is refund-blocked or invoiced is not deleted, its connector is not released
\* and its station is not saved; the refund check comes before the invoice
\* check, which comes before the handling of a session in progress.
C14_AsStated ==
  \A r \in Procs : \A id \in TxIds :
    (IsDelete(r) /\ req[r].canDeleteTransaction /\ id \in Range(req[r].ids)
       /\ OccupantAtBegin(r, id)) =>
      /\ (RefundHeldAtBegin(r, id) \/ InvoicedAtBegin(r, id)) => HeldOccupantIsKept(r, id)
      /\ (pc[r] = "done" /\ RefundHeldAtBegin(r, id)) =>
           MessagesAbout(r, id) = {"has been refunded and cannot be deleted"}
      /\ (pc[r] = "done" /\ ~RefundHeldAtBegin(r, id) /\ InvoicedAtBegin(r, id)) =>
           MessagesAbout(r, id) = {"has been billed and cannot be deleted"}

\* C14 amended: the same, where refund-blocked means held under a present
\* refund integration and invoiced means invoiced under a present billing
\* integration.
C14_HoldBeatsSessionState ==
  \A r \in Procs : \A id \in TxIds :
    (IsDelete(r) /\ req[r].canDeleteTransaction /\ id \in Range(req[r].ids)
       /\ OccupantAtBegin(r, id)) =>
      LET refundBlocked == refundImpl[req[r].tenantID] /\ RefundHeldAtBegin(r, id)
          invoiced == billingImpl[req[r].tenantID] /\ InvoicedAtBegin(r, id)
      IN /\ (refundBlocked \/ invoiced) => HeldOccupantIsKept(r, id)
         /\ (pc[r] = "done" /\ refundBlocked) =>
              MessagesAbout(r, id) = {"has been refunded and cannot be deleted"}
         /\ (pc[r] = "done" /\ ~refundBlocked /\ invoiced) =>
              MessagesAbout(r, id) = {"has been billed and cannot be deleted"}

\* An answered delete of a transaction in progress, occupant of its connector,
\* refund-held and invoiced, fetched with its chargeBox: kept, still bound,
\* logged as refunded.
C14_Witness ==
  \E r \in Procs : \E id \in TxIds :
    /\ IsDelete(r) /\ Answered(r) /\ id \in Range(req[r].ids)
    /\ refundImpl[req[r].tenantID] /\ billingImpl[req[r].tenantID]
    /\ OccupantAtBegin(r, id) /\ RefundHeldAtBegin(r, id) /\ InvoicedAtBegin(r, id)
    /\ FetchedWithChargeBox(r, id)
    /\ HeldOccupantIsKept(r, id)
    /\ MessagesAbout(r, id) = {"has been refunded and cannot be deleted"}

\* The same for a transaction that is invoiced and not refund-held.
C14_WitnessInvoiced ==
  \E r \in Procs : \E id \in TxIds :
    /\ IsDelete(r) /\ Answered(r) /\ id \in Range(req[r].ids)
    /\ billingImpl[req[r].tenantID]
    /\ OccupantAtBegin(r, id) /\ ~RefundHeldAtBegin(r, id) /\ InvoicedAtBegin(r, id)
    /\ FetchedWithChargeBox(r, id)
    /\ HeldOccupantIsKept(r, id)

\* ------------------------------------------------------ dangling references
\* A connector of the tenant's station store names the id and the tenant's
\* transaction store does not hold it.
Dangling(tenantID, id) ==
  ~Unreferenced(tenantID, id) /\ id \notin DOMAIN transactions[tenantID]

\* The getTransaction calls made by the loop of deleteTransactions: all of a
\* bulk request, all but the handler's own first one of a single delete.
LoopFetches(r) ==
  { k \in CallsOf(r, "getTransaction") : IsDeleteOne(r) => k > 1 }

\* Every fetch of the id by the loop came without chargeBox.
FetchedBare(r, id) ==
  \A k \in LoopFetches(r) :
    calls[r][k].id = id => calls[r][k].transaction.chargeBox = << >>

\* C15 as stated: no connector's currentTransactionID names a transaction id
\* that the transaction store no longer holds, whatever the stop state of a
\* deleted transaction and whether or not its chargeBox was attached.
C15_AsStated ==
  \A tenantID \in Tenants : \A id \in TxIds : ~Dangling(tenantID, id)

\* C15 amended: a dangling reference appears only by the bulk delete of a
\* request whose loop fetched the transaction without its chargeBox; a
\* transaction fetched with its chargeBox leaves none.
C15_DanglingOnlyWithoutSnapshot ==
  [][ \A tenantID \in Tenants : \A id \in TxIds :
        (~Dangling(tenantID, id) /\ Dangling(tenantID, id)') =>
          \E r \in Procs :
            /\ IsAnyDelete(r) /\ pc[r] = "delete_bulk" /\ pc'[r] = "done"
            /\ req[r].tenantID = tenantID
            /\ id \in Range(toDelete[r])
            /\ OccupantAtBegin(r, id)
            /\ FetchedBare(r, id) ]_vars

\* An answered single delete of a transaction in progress that occupied its
\* connector, fetched by the loop with its chargeBox: gone from the store, and
\* no connector names it.
C15_Witness ==
  \E r \in Procs :
    /\ IsDeleteOne(r) /\ Answered(r)
    /\ OccupantAtBegin(r, req[r].transactionId)
    /\ ~FetchedBare(r, req[r].transactionId)
    /\ req[r].transactionId \notin DOMAIN NowStore(r)
    /\ Unreferenced(req[r].tenantID, req[r].transactionId)
    /\ \A tenantID \in Tenants : \A id \in TxIds : ~Dangling(tenantID, id)

\* ------------------------------------------------------ concurrent deletes
\* The ids a request handed to the store's bulk delete.
HandedOver(r) == UNION { Range(calls[r][k].ids) : k \in CallsOf(r, "deleteTransactions") }
RowsReported(r) == IF Answered(r) THEN response[r].body.inSuccess ELSE 0
\* The rows of the tenant's store that were there when the first request
\* started and are gone now.
RowsRemoved == (DOMAIN begin[1].transactions["T1"] \cup DOMAIN begin[2].transactions["T1"])
                 \ DOMAIN transactions["T1"]

\* C16: two delete requests running at once over overlapping ids both go
\* through; an id both hand to the bulk delete is removed once, and the
\* inSuccess values of the two answers add up to the number of rows removed.
C16_OverlapCountsOnce ==
  /\ \A r \in Procs : (IsDelete(r) /\ req[r].canDeleteTransaction) => ~Failed(r)
  /\ (\A r \in Procs : IsDelete(r) /\ pc[r] = "done") =>
       /\ RowsReported(1) + RowsReported(2) = Cardinality(RowsRemoved)
       /\ \A id \in HandedOver(1) \cap HandedOver(2) : id \notin DOMAIN transactions["T1"]
       /\ RowsRemoved = HandedOver(1) \cup HandedOver(2)

\* Both requests handed 501 to the bulk delete; one answer counts it, the
\* other counts nothing.
C16_Witness ==
  /\ \A r \in Procs : IsDelete(r) /\ Answered(r) /\ req[r].ids = << 501 >>
  /\ 501 \in HandedOver(1) \cap HandedOver(2)
  /\ 501 \notin DOMAIN transactions["T1"]
  /\ {response[1].body.inSuccess, response[2].body.inSuccess} = {0, 1}
  /\ \A r \in Procs : response[r].body.inError = 0

\* ------------------------------------------------------------ tenant scope
\* The documents of the tenant's store, as getTransaction gave them to the
\* request, are the documents of the request's own tenant.
ReadsOwnTenant(r) ==
  \A k \in CallsOf(r, "getTransaction") :
    IF calls[r][k].id \in DOMAIN BeginStore(r)
      THEN /\ calls[r][k].transaction # NoTransaction
           /\ [f \in DOMAIN BeginStore(r)[calls[r][k].id] |-> calls[r][k].transaction[f]]
                = BeginStore(r)[calls[r][k].id]
           /\ \A i \in DOMAIN calls[r][k].transaction.chargeBox :
                calls[r][k].transaction.chargeBox[i] \in
                  { BeginStations(r)[s] : s \in DOMAIN BeginStations(r) } \cup
                  { stations[req[r].tenantID][s] : s \in DOMAIN stations[req[r].tenantID] }
      ELSE calls[r][k].transaction = NoTransaction

\* C17: a delete request of a user of one tenant reads, deletes and releases
\* connectors in that tenant's stores only; the transactions and stations of
\* every other tenant stay as they were, also when they hold the same id.
C17_TenantScoped ==
  \A r \in Procs :
    IsAnyDelete(r) =>
      /\ \A other \in Tenants \ {req[r].tenantID} :
           /\ transactions[other] = begin[r].transactions[other]
           /\ stations[other] = begin[r].stations[other]
      /\ ReadsOwnTenant(r)
      /\ Answered(r) =>
           response[r].body.inSuccess =
             Cardinality(DOMAIN BeginStore(r) \ DOMAIN NowStore(r))

\* A user of T2 deleted T2's 501, in progress on its connector, while T1
\* holds a 501 of its own, in progress on its own connector: T1's document
\* and binding are still there.
C17_Witness ==
  \E r \in Procs :
    /\ IsAnyDelete(r) /\ Answered(r) /\ req[r].tenantID = "T2"
    /\ 501 \in Range(req[r].ids)
    /\ 501 \in DOMAIN begin[r].transactions["T2"]
    /\ 501 \notin DOMAIN transactions["T2"]
    /\ Unreferenced("T2", 501)
    /\ 501 \in DOMAIN transactions["T1"]
    /\ ~transactions["T1"][501].stop
    /\ ~Unreferenced("T1", 501)

\* ------------------------------------------------------------ single delete
\* C18 as stated: a single delete whose transaction is missing, held by the
\* refund check or invoiced ends with an error response, not with a success
\* envelope.
C18_AsStated ==
  \A r \in Procs :
    (IsDeleteOne(r) /\ req[r].canDeleteTransaction /\ pc[r] = "done"
       /\ Ineligible(r, req[r].transactionId)) => Failed(r)

\* The part of C18 the handler keeps: a missing transaction is an error.
C18_MissingIsAnError ==
  \A r \in Procs :
    (IsDeleteOne(r) /\ req[r].canDeleteTransaction /\ pc[r] = "done"
       /\ ~StoredAtBegin(r, req[r].transactionId)) =>
      response[r] = Failure("AppError: Transaction does not exist")

\* ------------------------------------------------------ absent integrations
Refunded == "has been refunded and cannot be deleted"
Billed == "has been billed and cannot be deleted"
Messages(r) == { log[r][k].message : k \in DOMAIN log[r] }

\* C19: for a tenant without refund integration the refund state of a
\* transaction never keeps it from being deleted, for a tenant without billing
\* integration an invoiceID never does, and the request does not fail.
C19_AbsentIntegrationNoConstraint ==
  \A r \in Procs :
    (IsDelete(r) /\ req[r].canDeleteTransaction) =>
      LET tenantID == req[r].tenantID
      IN /\ ~Failed(r)
         /\ ~refundImpl[tenantID] => Refunded \notin Messages(r)
         /\ ~billingImpl[tenantID] => Billed \notin Messages(r)
         /\ pc[r] = "done" =>
              \A id \in Range(req[r].ids) \cap DOMAIN BeginStore(r) :
                /\ (~refundImpl[tenantID] /\ ~(billingImpl[tenantID] /\ InvoicedAtBegin(r, id)))
                     => id \notin DOMAIN NowStore(r)
                /\ (~billingImpl[tenantID] /\ ~(refundImpl[tenantID] /\ RefundHeldAtBegin(r, id)))
                     => id \notin DOMAIN NowStore(r)

\* A tenant with neither integration: a transaction that is refund-held and
\* invoiced was deleted, nothing counted in error.
C19_Witness ==
  \E r \in Procs : \E id \in TxIds :
    /\ IsDelete(r) /\ Answered(r) /\ req[r].ids = << id >>
    /\ ~refundImpl[req[r].tenantID] /\ ~billingImpl[req[r].tenantID]
    /\ RefundHeldAtBegin(r, id) /\ InvoicedAtBegin(r, id)
    /\ id \notin DOMAIN NowStore(r)
    /\ response[r].body.inSuccess = 1 /\ response[r].body.inError = 0

\* -------------------------------------------------------------- assignment
IsAssign(r) == req[r].op = "assignTransactionsToUser"
TargetStored(r) == HasUser(req[r].tenantID, req[r].UserID)
TargetIssued(r) == TargetStored(r) /\ UserDoc(req[r].tenantID, req[r].UserID).issuer

\* C20: the reassignment of unassigned transactions to a stored user that is
\* not issued by the organization fails, never calls assignTransactionsToUser
\* and changes no owner; the call is made only for a stored, issued user and
\* a caller that may update transactions.
C20_ExternalUserIsRejected ==
  \A r \in Procs :
    IsAssign(r) =>
      /\ (TargetStored(r) /\ ~TargetIssued(r)) =>
           /\ CallsOf(r, "assignTransactionsToUser") = {}
           /\ NowStore(r) = BeginStore(r)
           /\ ~Answered(r)
           /\ (pc[r] = "done" /\ req[r].canUpdateTransaction) =>
                response[r] = Failure("AppError: User not issued by the organization")
      /\ \A k \in CallsOf(r, "assignTransactionsToUser") :
           /\ req[r].canUpdateTransaction
           /\ TargetIssued(r)
           /\ calls[r][k].user = UserDoc(req[r].tenantID, req[r].UserID)
      /\ ~Answered(r) => NowStore(r) = BeginStore(r)
      /\ pc[r] = "done" => (Answered(r) \/ Failed(r))
      /\ \A id \in DOMAIN NowStore(r) :
           NowStore(r)[id].userID # BeginStore(r)[id].userID =>
             /\ BeginStore(r)[id].userID = ""
             /\ NowStore(r)[id].userID = req[r].UserID

\* An authorized request naming the external user U3, with an unassigned
\* transaction in the store: failed, the transaction still unassigned.
C20_Witness ==
  \E r \in Procs :
    /\ IsAssign(r) /\ req[r].canUpdateTransaction /\ req[r].UserID = "U3"
    /\ Failed(r)
    /\ CallsOf(r, "getUser") # {}
    /\ \E id \in DOMAIN NowStore(r) : NowStore(r)[id].userID = ""

\* An answered request naming U1 that gave 501 to U1.
C20_WitnessAssigned ==
  \E r \in Procs :
    /\ IsAssign(r) /\ Answered(r) /\ req[r].UserID = "U1"
    /\ BeginStore(r)[501].userID = "" /\ NowStore(r)[501].userID = "U1"

\* ---------------------------------------------------------- in-error query
IsInError(r) == req[r].op = "getTransactionsInError"
\* What the store returned to the request.
StoredResult(r) == calls[r][1].result

\* C21: the in-error query answers at most 100 entries whatever the page size
\* and the store's result: the first 100 in store order when the store gave
\* more, the whole result as the response filter left it otherwise.
C21_CappedAtHundred ==
  \A r \in Procs :
    (IsInError(r) /\ Answered(r)) =>
      LET stored == StoredResult(r)
          out == response[r].body.result
      IN /\ Len(out) <= 100
         /\ Len(stored) > 100 =>
              /\ Len(out) = 100
              /\ \A i \in 1..100 :
                   /\ out[i].id = stored[i].id
                   /\ out[i].errorCode = stored[i].errorCode
                   /\ out[i].user = IF req[r].isAdmin THEN stored[i].user ELSE ""
         /\ Len(stored) <= 100 =>
              /\ Len(out) = Len(stored)
              /\ \A i \in 1..Len(stored) :
                   /\ out[i].id = stored[i].id
                   /\ out[i].errorCode = stored[i].errorCode
                   /\ out[i].user = IF req[r].isAdmin THEN stored[i].user ELSE ""

\* A page size of 200, a store result of 102 entries: 100 answered, the last
\* of them the hundredth of the store.
C21_Witness ==
  \E r \in Procs :
    /\ IsInError(r) /\ Answered(r) /\ req[r].Limit = 200
    /\ Len(StoredResult(r)) = 102
    /\ Len(response[r].body.result) = 100
    /\ response[r].body.result[100].id = StoredResult(r)[100].id
    /\ response[r].body.result[1].id = StoredResult(r)[1].id

\* A store result of exactly 100 entries, answered whole.
C21_WitnessAtCap ==
  \E r \in Procs :
    /\ IsInError(r) /\ Answered(r)
    /\ Len(StoredResult(r)) = 100 /\ Len(response[r].body.result) = 100

\* -------------------------------------------------------------- CSV export
IsCsv(r) == req[r].op = "convertToCSV"
\* The line of the text that the i-th transaction of the request produced.
RowOf(r, i) == response[r].body.csv[i + (IF req[r].writeHeader THEN 1 ELSE 0)]
\* The columns whose cell depends on the stop of the transaction.
StopDerivedColumns ==
  { c \in DOMAIN CsvHeader :
      \E t \in CsvTransactions, stop \in CsvStops :
        CsvRow(t)[c] # CsvRow([t EXCEPT !.stop = stop])[c] }
EmptyColumns(row) == { c \in DOMAIN row : row[c] = EmptyCell }

\* The seven cells that do not depend on the stop, as the transaction gives
\* them: id, station, connector, the hashed user id and the user name (empty
\* without user), start date and start time.
StartCellsWellFormed(row, transaction) ==
  /\ row[1] = NumberCell(transaction.id)
  /\ row[2] = TextCell(transaction.chargeBoxID)
  /\ row[3] = NumberCell(transaction.connectorId)
  /\ IF transaction.user = << >>
       THEN row[4] = EmptyCell /\ row[5] = EmptyCell
       ELSE /\ row[4].kind = "hash" /\ row[4].s = transaction.user[1].id
            /\ row[5] = TextCell(transaction.user[1].name)
  /\ row[6].kind = "date" /\ row[6].n = transaction.timestamp
  /\ row[7].kind = "time" /\ row[7].n = transaction.timestamp

OneRowPerTransaction(r) ==
  /\ Len(response[r].body.csv) =
       Len(req[r].transactions) + (IF req[r].writeHeader THEN 1 ELSE 0)
  /\ req[r].writeHeader => response[r].body.csv[1] = CsvHeader
  /\ \A i \in DOMAIN req[r].transactions : Len(RowOf(r, i)) = Len(CsvHeader)

\* C22 as stated: a transaction without stop has nine stop-derived columns,
\* all empty, and well-formed values in the others; one row per transaction,
\* as wide as the header.
C22_AsStated ==
  \A r \in Procs :
    (IsCsv(r) /\ Answered(r)) =>
      /\ OneRowPerTransaction(r)
      /\ \A i \in DOMAIN req[r].transactions :
           req[r].transactions[i].stop = << >> =>
             /\ Cardinality(EmptyColumns(RowOf(r, i)) \cap StopDerivedColumns) = 9
             /\ StartCellsWellFormed(RowOf(r, i), req[r].transactions[i])

\* C22 amended: the stop-derived columns are seven (end date, end time,
\* consumption, duration, inactivity, price, price unit), all empty for a
\* transaction without stop.
C22_StopColumnsEmpty ==
  \A r \in Procs :
    (IsCsv(r) /\ Answered(r)) =>
      /\ OneRowPerTransaction(r)
      /\ \A i \in DOMAIN req[r].transactions :
           req[r].transactions[i].stop = << >> =>
             /\ StopDerivedColumns = 8..14
             /\ StopDerivedColumns \subseteq EmptyColumns(RowOf(r, i))
             /\ Cardinality(EmptyColumns(RowOf(r, i)) \cap StopDerivedColumns) = 7
             /\ StartCellsWellFormed(RowOf(r, i), req[r].transactions[i])

\* An export with header of a stopped transaction followed by one without
\* stop that has a user: the second line has its first seven cells filled and
\* the last seven empty.
C22_Witness ==
  \E r \in Procs :
    /\ IsCsv(r) /\ Answered(r) /\ req[r].writeHeader
    /\ Len(req[r].transactions) = 2
    /\ req[r].transactions[1].stop # << >>
    /\ req[r].transactions[2].stop = << >>
    /\ req[r].transactions[2].user # << >>
    /\ EmptyColumns(RowOf(r, 2)) = 8..14
    /\ EmptyColumns(RowOf(r, 1)) = {}
    /\ Len(response[r].body.csv) = 3

\* ------------------------------------------------------------ loop order
Fetched(r) == Cardinality(CallsOf(r, "getTransaction"))
\* The ids of the list the loop is through with: logged as skipped, or pushed
\* to the list of the bulk delete.
Handled(r) == Len(log[r]) + Len(toDelete[r])
\* What the loop logs about an id it skips.
SkipReason(r, id) ==
  IF id \notin DOMAIN BeginStore(r) THEN "does not exist"
  ELSE IF refundImpl[req[r].tenantID] /\ RefundHeldAtBegin(r, id)
    THEN "has been refunded and cannot be deleted"
    ELSE "has been billed and cannot be deleted"
SkippedSoFar(r) ==
  Pick(req[r].ids, { i \in 1..Handled(r) : Ineligible(r, req[r].ids[i]) })

InInputOrder(r) ==
  /\ Fetched(r) <= Len(req[r].ids)
  /\ FetchedIds(r) = SubSeq(req[r].ids, 1, Fetched(r))
  /\ Handled(r) <= Fetched(r) /\ Fetched(r) <= Handled(r) + 1
  /\ Fetched(r) = Handled(r) + 1 => pc[r] = "delete_save"
  /\ pc[r] = "done" => Handled(r) = Len(req[r].ids)
  /\ IdsOf(log[r]) = SkippedSoFar(r)
  /\ \A k \in DOMAIN log[r] : log[r][k].message = SkipReason(r, log[r][k].id)
  /\ toDelete[r] =
       Pick(req[r].ids, { i \in 1..Handled(r) : ~Ineligible(r, req[r].ids[i]) })

OccupiesFetchedConnector(tx) ==
  /\ ~tx.stop
  /\ tx.chargeBox # << >>
  /\ tx.connectorId \in DOMAIN tx.chargeBox[1].connectors
  /\ tx.chargeBox[1].connectors[tx.connectorId].currentTransactionID = tx.id

\* The k-th call of the request saved the station of the transaction that the
\* call before it fetched, with nothing changed but that connector released.
SaveFollowsItsFetch(r, k) ==
  /\ k > 1
  /\ calls[r][k - 1].op = "getTransaction"
  /\ LET tx == calls[r][k - 1].transaction
     IN /\ tx # NoTransaction
        /\ ~Ineligible(r, tx.id)
        /\ OccupiesFetchedConnector(tx)
        /\ calls[r][k].chargeBox =
             [tx.chargeBox[1] EXCEPT !.connectors[tx.connectorId].currentTransactionID = 0]

\* The k-th call fetched an eligible transaction that needs no release: no
\* save follows it, and the id goes to the bulk delete all the same.
NoSaveButMarked(r, k) ==
  LET tx == calls[r][k].transaction
  IN (tx # NoTransaction /\ ~Ineligible(r, tx.id) /\ ~OccupiesFetchedConnector(tx)) =>
       /\ (k + 1 \in DOMAIN calls[r] => calls[r][k + 1].op # "saveChargingStation")
       /\ tx.id \in Range(toDelete[r])

\* C24: a delete request writes the station store only for a transaction that
\* passed the financial checks, is in progress, came with its chargeBox and is
\* the occupant of its connector; for a completed transaction, a missing
\* chargeBox, a missing connector or a connector bound to another transaction
\* the station store stays as it was and the id is still marked for deletion.
C24_StationWrites ==
  /\ [](\A r \in Procs :
          (IsDelete(r) /\ req[r].canDeleteTransaction) =>
            /\ \A k \in CallsOf(r, "saveChargingStation") : SaveFollowsItsFetch(r, k)
            /\ \A k \in CallsOf(r, "getTransaction") : NoSaveButMarked(r, k)
            /\ CallsOf(r, "saveChargingStation") = {} =>
                 stations = begin[r].stations)
  /\ [][ stations' # stations =>
           \E r \in Procs :
             /\ IsDelete(r) /\ pc[r] = "delete_save"
             /\ Len(calls'[r]) = Len(calls[r]) + 1
             /\ calls'[r][Len(calls'[r])].op = "saveChargingStation"
             /\ stations'[req[r].tenantID][StationID] = calls'[r][Len(calls'[r])].chargeBox ]_vars

\* An answered delete of 502, in progress on connector 1 and fetched with its
\* chargeBox, while connector 1 is bound to 501: no station save, the binding
\* to 501 kept, 502 deleted.
C24_Witness ==
  \E r \in Procs :
    /\ IsDelete(r) /\ Answered(r) /\ req[r].ids = << 502 >>
    /\ OccupantAtBegin(r, 501)
    /\ 502 \in DOMAIN BeginStore(r)
    /\ ~BeginStore(r)[502].stop /\ BeginStore(r)[502].connectorId = 1
    /\ FetchedWithChargeBox(r, 502)
    /\ CallsOf(r, "saveChargingStation") = {}
    /\ stations = begin[r].stations
    /\ 502 \notin DOMAIN NowStore(r)

\* ---------------------------------------------------------- one bulk delete
\* C25: a delete request changes the transaction store by one bulk-delete
\* call, made after every id of the list was examined, also when none is
\* eligible; every station save comes before it, and no transaction is
\* removed while an id is still to be examined.
C25_OneBulkDeleteAtTheEnd ==
  /\ [](\A r \in Procs :
          (IsDelete(r) /\ req[r].canDeleteTransaction) =>
            /\ pc[r] # "done" =>
                 /\ CallsOf(r, "deleteTransactions") = {}
                 /\ NowStore(r) = BeginStore(r)
            /\ pc[r] = "done" =>
                 /\ CallsOf(r, "deleteTransactions") = {Len(calls[r])}
                 /\ Fetched(r) = Len(req[r].ids)
                 /\ \A k \in CallsOf(r, "saveChargingStation") : k < Len(calls[r])
                 /\ DOMAIN NowStore(r) =
                      DOMAIN BeginStore(r) \ Range(calls[r][Len(calls[r])].ids))
  /\ [][ transactions' # transactions =>
           \E r \in Procs :
             /\ IsDelete(r) /\ pc[r] = "delete_bulk" /\ pc'[r] = "done"
             /\ idx[r] > Len(req[r].ids) ]_vars

\* The intermediate state: the connector of a transaction in progress is
\* released and its station saved, the transaction still stored, the bulk
\* delete not yet called.
C25_Witness ==
  \E r \in Procs : \E id \in TxIds :
    /\ IsDelete(r) /\ pc[r] \in {"delete_loop", "delete_bulk"}
    /\ OccupantAtBegin(r, id)
    /\ CallsOf(r, "saveChargingStation") # {}
    /\ Unreferenced(req[r].tenantID, id)
    /\ id \in DOMAIN NowStore(r)
    /\ id \in Range(toDelete[r])
    /\ CallsOf(r, "deleteTransactions") = {}

\* A request none of whose ids is eligible still calls the bulk delete, with
\* an empty list.
C25_WitnessNoneEligible ==
  \E r \in Procs :
    /\ IsDelete(r) /\ Answered(r) /\ req[r].ids # << >> /\ EligibleIds(r) = {}
    /\ \E k \in CallsOf(r, "deleteTransactions") : calls[r][k].ids = << >>

\* ------------------------------------------------------ concurrent CDR pushes
\* C26 as stated: whatever the interleaving of two CDR pushes of the same
\* transaction, issued by the tenant, with ocpiData and no CDR id at first,
\* the roaming collaborator is asked to send its CDR at most once.
C26_AsStated ==
  \A id \in TxIds : cdrSent["T1"][id] <= 1

\* Both requests were answered for the same transaction, each after a send of
\* its own.
C26_BothSent ==
  /\ \A r \in Procs : IsCdrPush(r) /\ Answered(r) /\ req[r].transactionId = 501
  /\ \A r \in Procs : CallsOf(r, "processOCPITransaction") # {}
  /\ cdrSent["T1"][501] = 2

\* ------------------------------------------------- refund against delete
\* C27 as stated: whatever the interleaving of a refund request and a delete
\* request naming the same transaction, with the refund integration present,
\* a stored transaction with a refundId and a status other than CANCELLED is
\* not removed from the store.
C27_AsStated ==
  [][ \A id \in DOMAIN transactions["T1"] :
        (refundImpl["T1"] /\ RefundHeld(transactions["T1"][id])) =>
          id \in DOMAIN transactions'["T1"] ]_vars

\* The refund request was answered with the transaction accepted, and the
\* delete request was answered with the same transaction removed.
C27_RefundedAndDeleted ==
  \E r, d \in Procs :
    /\ IsRefund(r) /\ Answered(r) /\ IsDelete(d) /\ Answered(d)
    /\ \E k \in CallsOf(r, "refund") : 501 \in Range(IdsOf(calls[r][k].refunded))
    /\ 501 \in Range(toDelete[d])
    /\ 501 \notin DOMAIN transactions["T1"]
    /\ response[d].body.inSuccess >= 1

\* ------------------------------------------------------ concurrent refunds
\* The requests that handed the transaction of the id to the refund
\* integration.
HandedToRefund(id) ==
  { r \in Procs : IsRefund(r) /\ \E k \in CallsOf(r, "refund") :
                                   id \in Range(IdsOf(calls[r][k].transactions)) }

\* C28 as stated: whatever the interleaving of two refund requests naming the
\* same transaction, not refunded at first, no request hands the refund
\* integration a transaction that the integration has already accepted for
\* the other, so that no transaction is handed over by both with the first
\* hand-over accepted.
C28_AsStated ==
  [][ \A r \in Procs :
        (pc[r] = "refund_submit" /\ Len(calls'[r]) = Len(calls[r]) + 1
           /\ calls'[r][Len(calls'[r])].op = "refund") =>
          \A i \in DOMAIN toRefund[r] :
            toRefund[r][i].id \in DOMAIN transactions["T1"] =>
              ~RefundHeld(transactions["T1"][toRefund[r][i].id]) ]_vars

\* Both requests were answered, each after handing 501 to the integration,
\* which accepted it both times.
C28_BothSubmitted ==
  /\ \A r \in Procs : IsRefund(r) /\ Answered(r) /\ req[r].ids = << 501 >>
  /\ HandedToRefund(501) = Procs
  /\ \A r \in Procs : \E k \in CallsOf(r, "refund") :
       501 \in Range(IdsOf(calls[r][k].refunded))

====
